---- MODULE Spec2Model ----
(***************************************************************************)
(* Verification model of the Runa compiler pipeline.                        *)
(*                                                                          *)
(*   Spec      Transpiler.transpile in standard mode with the semantic      *)
(*             analyzer (src/runa/transpiler.py, src/runa/analyzer.py).     *)
(*             The analyzer is a one-pass depth-first visitor without       *)
(*             lookahead, so the program is supplied node by node in        *)
(*             depth-first order: every bracketed sequence of visits is the *)
(*             traversal of exactly one AST.                                *)
(*   SpecLexer RunaLexer (src/runa/lexer.py): the PLY rule table and the    *)
(*             indentation wrapper around lex.token().                      *)
(*   SpecTypes TypeChecker.check_program and TypeInferer.infer_type          *)
(*             (src/runa/types/checker.py, src/runa/types/inference.py).    *)
(*   SpecGenerator PyCodeGenerator and JsCodeGenerator emitting text         *)
(*             (src/runa/generator.py, src/runa/targets/js_generator.py).   *)
(*   SpecAnalysis SemanticAnalyzer.analyze on ASTs of the extended language, *)
(*             with the visit methods the integrate_* functions add to      *)
(*             class Visitor (src/runa/patterns/visitors.py,                *)
(*             src/runa/functional/visitors.py, src/runa/types/__init__.py).*)
(*   SpecModes Transpiler(target, advanced) for every target and both modes  *)
(*             and one transpile call on it (src/runa/transpiler.py,        *)
(*             src/runa/advanced.py).                                       *)
(*   SpecMatch match statements compiled by the Python and JavaScript       *)
(*             generators and run on a scrutinee, and the runtime matcher   *)
(*             (src/runa/patterns, src/runa/targets/js_generator.py).       *)
(***************************************************************************)
EXTENDS Integers, Sequences, FiniteSets, TLC

VARIABLES
    pc,         \* position inside Transpiler.transpile: "idle", "analyzing", "generate"
    scopes,     \* SemanticAnalyzer.current_scope as the chain root..current of Scope.symbols
    errors,     \* SemanticAnalyzer.errors
    warnings,   \* SemanticAnalyzer.warnings
    frames,     \* open visit_IfStatement / visit_ForEachStatement / visit_ProcessDefinition calls
    stmtNo,     \* number of statements of the current program visited so far (their positions)
    visited,    \* number of statements this analyzer has visited in all its analyses
    calls,      \* number of transpile calls made on this Transpiler
    result,     \* the tuple returned by the last transpile call
    h,          \* history of the program text seen so far (no code reads it)
    lexer,      \* a RunaLexer with the tokens its caller has received from it
    match,      \* a match statement: compiled, run on a scrutinee, or matched at run time
    types,      \* a TypeChecker: the last program it checked and the last expression inferred
    analysis,   \* a SemanticAnalyzer over the extended Visitor class and the last AST it analysed
    transpiler, \* a Transpiler of some target and mode, and how its transpile call ended
    gen         \* a code generator of a Transpiler and the text of its last generate call

transpilerVars == <<pc, scopes, errors, warnings, frames, stmtNo, visited, calls, result, h>>
vars == <<transpilerVars, lexer, match, types, gen, analysis, transpiler>>

\* what the steps of one component leave alone
outsideTranspiler == <<lexer, match, types, gen, analysis, transpiler>>
outsideLexer == <<transpilerVars, match, types, gen, analysis, transpiler>>
outsideMatch == <<transpilerVars, lexer, types, gen, analysis, transpiler>>
outsideTypes == <<transpilerVars, lexer, match, gen, analysis, transpiler>>
outsideGenerator == <<transpilerVars, lexer, match, types, analysis, transpiler>>
outsideAnalysis == <<transpilerVars, lexer, match, types, gen, transpiler>>
outsideModes == <<transpilerVars, lexer, match, types, gen, analysis>>

----------------------------------------------------------------------------
(* Bounds *)

MaxStmts == 3
MaxDepth == 2
MaxCalls == 2

----------------------------------------------------------------------------
(* The AST fragments the visits are fed with *)

Names == {"x", "y"}

NumLit == [k |-> "num"]
VarRef(n) == [k |-> "var", name |-> n]
BinOp(l, r) == [k |-> "bin", left |-> l, right |-> r]
Call(n, args, named) == [k |-> "call", name |-> n, args |-> args, named |-> named]

\* Python's None where a child node is optional
None == [k |-> "none"]


----------------------------------------------------------------------------
(* Scope *)

\* a resolve that looks in the current scope only
resolve_local(chain, name) == chain # <<>> /\ name \in chain[Len(chain)]

\* Scope.resolve: look in this scope, else in the parent, else None
RECURSIVE resolve(_, _)
resolve(chain, name) ==
    IF chain = <<>> THEN FALSE
    ELSE IF name \in chain[Len(chain)] THEN TRUE
    ELSE resolve(SubSeq(chain, 1, Len(chain) - 1), name)

\* a duplicate check that walks the whole chain
is_defined_in_chain(chain, name) == resolve(chain, name)

\* Scope.is_defined_in_current_scope
is_defined_in_current_scope(chain, name) == name \in chain[Len(chain)]

\* Scope.define on the current scope
define(chain, name) ==
    [chain EXCEPT ![Len(chain)] = chain[Len(chain)] \cup {name}]

\* an enter_scope that leaves the current scope current
enter_scope_same(chain) == chain

\* SemanticAnalyzer.enter_scope
enter_scope(chain) == Append(chain, {})

\* an exit_scope that keeps the block's scope current
exit_scope_keep(chain) == chain

\* SemanticAnalyzer.exit_scope
exit_scope(chain) == SubSeq(chain, 1, Len(chain) - 1)

\* SemanticAnalyzer.error: one entry "<position>: <message>"
Error(kind, name, pos) == [kind |-> kind, name |-> name, pos |-> pos]

BuiltinFunctions == {"format_string", "format_message"}

RECURSIVE VisitExpr(_, _, _)
RECURSIVE VisitExprs(_, _, _)
\* the errors reported while visiting the expression e in the scope chain
VisitExpr(e, chain, pos) ==
    CASE e.k = "num" -> <<>>
      [] e.k = "var" ->
            IF resolve(chain, e.name) THEN <<>>
            ELSE <<Error("undefined variable", e.name, pos)>>
      [] e.k = "bin" ->
            VisitExpr(e.left, chain, pos) \o VisitExpr(e.right, chain, pos)
      [] e.k = "call" ->
            (IF ~resolve(chain, e.name) /\ e.name \notin BuiltinFunctions
             THEN <<Error("undefined function", e.name, pos)>>
             ELSE <<>>)
            \o VisitExprs(e.args, chain, pos) \o VisitExprs(e.named, chain, pos)

VisitExprs(es, chain, pos) ==
    IF es = <<>> THEN <<>>
    ELSE VisitExpr(Head(es), chain, pos) \o VisitExprs(Tail(es), chain, pos)

----------------------------------------------------------------------------
(* History of the program text: what the program itself binds, level by     *)
(* level, independent of the analyzer's scope objects.                      *)

NoStmt == [kind |-> "none"]

HistInit ==
    [bound  |-> <<{}>>,      \* names the program has bound at each open level
     acc    |-> <<>>,        \* per open block: names bound in its finished then-block
     closed |-> {},          \* names bound in the if/for-each body that ended in the last step
     stmt   |-> NoStmt,      \* the statement visited in the last step
     after  |-> {},          \* closed, as it was when stmt was visited
     outer  |-> {},          \* names bound at the enclosing levels when stmt was visited
     same   |-> {},          \* names bound at the level of stmt when it was visited
     chain  |-> {},          \* names in the analyzer's scope chain when stmt was visited
     errBefore |-> 0,        \* length of the error list before stmt
     errStart  |-> 0,        \* length of the error list when this analysis began
     unbound   |-> 0,        \* unbound references the program has made so far
     parse     |-> "none",   \* outcome of the parse of the last transpile call
     analysed  |-> FALSE,    \* whether the last transpile call ran the analysis
     carried   |-> {}]       \* names in the root scope when this analysis began

RECURSIVE SeqUnion(_)
SeqUnion(ss) == IF ss = <<>> THEN {} ELSE Head(ss) \cup SeqUnion(Tail(ss))

\* the names a statement binds at its own level
BindsHere(stmt) ==
    IF stmt.kind \in {"decl", "process"} THEN {stmt.name} ELSE {}

\* the names a block statement binds inside its body on entry
BindsInside(stmt) ==
    CASE stmt.kind = "for" -> {stmt.name}
      [] stmt.kind = "process" -> {stmt.params[i] : i \in DOMAIN stmt.params}
      [] OTHER -> {}

RECURSIVE CountUnbound(_, _)
RECURSIVE CountUnboundAll(_, _)
\* number of references and calls in e whose name is not in the set known
CountUnbound(e, known) ==
    CASE e.k = "num" -> 0
      [] e.k = "var" -> IF e.name \in known THEN 0 ELSE 1
      [] e.k = "bin" -> CountUnbound(e.left, known) + CountUnbound(e.right, known)
      [] e.k = "call" ->
            (IF e.name \in known \cup {"format_string", "format_message"} THEN 0 ELSE 1)
            + CountUnboundAll(e.args, known) + CountUnboundAll(e.named, known)

CountUnboundAll(es, known) ==
    IF es = <<>> THEN 0
    ELSE CountUnbound(Head(es), known) + CountUnboundAll(Tail(es), known)

\* the expressions a statement evaluates in the scope it is visited in
StmtExprs(stmt) ==
    (IF stmt.value.k = "none" THEN <<>> ELSE <<stmt.value>>)
    \o (IF stmt.kind = "display" /\ stmt.message.k # "none" THEN <<stmt.message>> ELSE <<>>)

StmtUnbound(stmt, known) ==
    (IF stmt.kind = "assign" /\ stmt.name \notin known THEN 1 ELSE 0)
    + CountUnboundAll(StmtExprs(stmt), known)

RECURSIVE RefNames(_)
RECURSIVE RefNamesAll(_)
\* the names an expression refers to, built-in functions left out
RefNames(e) ==
    CASE e.k = "num" -> {}
      [] e.k = "var" -> {e.name}
      [] e.k = "bin" -> RefNames(e.left) \cup RefNames(e.right)
      [] e.k = "call" ->
            ({e.name} \ {"format_string", "format_message"})
            \cup RefNamesAll(e.args) \cup RefNamesAll(e.named)

RefNamesAll(es) ==
    IF es = <<>> THEN {} ELSE RefNames(Head(es)) \cup RefNamesAll(Tail(es))

StmtRefs(stmt) ==
    (IF stmt.kind = "assign" THEN {stmt.name} ELSE {}) \cup RefNamesAll(StmtExprs(stmt))

\* history after visiting stmt at the current level (opens says it opens a block)
HistVisit(stmt, opens) ==
    LET n == Len(h.bound)
        known == SeqUnion(scopes)
        b1 == [h.bound EXCEPT ![n] = h.bound[n] \cup BindsHere(stmt)]
    IN [h EXCEPT
          !.bound = IF opens THEN Append(b1, BindsInside(stmt)) ELSE b1,
          !.acc = IF opens THEN Append(h.acc, {}) ELSE h.acc,
          !.closed = {},
          !.stmt = [kind |-> stmt.kind, name |-> stmt.name, refs |-> StmtRefs(stmt),
                    unbound |-> StmtUnbound(stmt, known)],
          !.after = h.closed,
          !.outer = SeqUnion(SubSeq(h.bound, 1, n - 1)),
          !.same = h.bound[n],
          !.chain = known,
          !.errBefore = Len(errors),
          !.unbound = h.unbound + StmtUnbound(stmt, known)]

Stmt(kind, name, value) ==
    [kind |-> kind, name |-> name, value |-> value, message |-> None, params |-> <<>>]

----------------------------------------------------------------------------
(* SemanticAnalyzer visits *)

CanVisit == pc = "analyzing" /\ visited < MaxStmts

\* visit_Declaration
VisitDeclaration(n, e) ==
    /\ CanVisit
    /\ LET pos == stmtNo + 1
           dup == IF is_defined_in_current_scope(scopes, n)
                  THEN <<Error("already defined", n, pos)>> ELSE <<>>
       IN /\ errors' = errors \o dup \o VisitExpr(e, scopes, pos)
          /\ scopes' = define(scopes, n)
    /\ stmtNo' = stmtNo + 1
    /\ visited' = visited + 1
    /\ h' = HistVisit(Stmt("decl", n, e), FALSE)
    /\ UNCHANGED <<pc, warnings, frames, calls, result>>
    /\ UNCHANGED outsideTranspiler

\* visit_Assignment
VisitAssignment(n, e) ==
    /\ CanVisit
    /\ LET pos == stmtNo + 1
           undef == IF ~resolve(scopes, n)
                    THEN <<Error("undefined assignment", n, pos)>> ELSE <<>>
       IN errors' = errors \o undef \o VisitExpr(e, scopes, pos)
    /\ stmtNo' = stmtNo + 1
    /\ visited' = visited + 1
    /\ h' = HistVisit(Stmt("assign", n, e), FALSE)
    /\ UNCHANGED <<pc, scopes, warnings, frames, calls, result>>
    /\ UNCHANGED outsideTranspiler

\* visit_ReturnStatement (value may be None)
VisitReturnStatement(e) ==
    /\ CanVisit
    /\ errors' = errors \o (IF e.k = "none" THEN <<>> ELSE VisitExpr(e, scopes, stmtNo + 1))
    /\ stmtNo' = stmtNo + 1
    /\ visited' = visited + 1
    /\ h' = HistVisit(Stmt("return", "", e), FALSE)
    /\ UNCHANGED <<pc, scopes, warnings, frames, calls, result>>
    /\ UNCHANGED outsideTranspiler

\* visit_DisplayStatement (message may be None)
VisitDisplayStatement(e, m) ==
    /\ CanVisit
    /\ errors' = errors \o VisitExpr(e, scopes, stmtNo + 1)
                        \o (IF m.k = "none" THEN <<>> ELSE VisitExpr(m, scopes, stmtNo + 1))
    /\ stmtNo' = stmtNo + 1
    /\ visited' = visited + 1
    /\ h' = HistVisit([Stmt("display", "", e) EXCEPT !.message = m], FALSE)
    /\ UNCHANGED <<pc, scopes, warnings, frames, calls, result>>
    /\ UNCHANGED outsideTranspiler

\* visit_IfStatement up to the first statement of the then-block
VisitIfStatement(cond) ==
    /\ CanVisit
    /\ Len(frames) < MaxDepth
    /\ errors' = errors \o VisitExpr(cond, scopes, stmtNo + 1)
    /\ scopes' = enter_scope(scopes)
    /\ frames' = Append(frames, "then")
    /\ stmtNo' = stmtNo + 1
    /\ visited' = visited + 1
    /\ h' = HistVisit(Stmt("if", "", cond), TRUE)
    /\ UNCHANGED <<pc, warnings, calls, result>>
    /\ UNCHANGED outsideTranspiler

\* visit_IfStatement between the then-block and the else-block
IfOtherwise ==
    /\ pc = "analyzing"
    /\ frames # <<>>
    /\ frames[Len(frames)] = "then"
    /\ scopes' = enter_scope(exit_scope(scopes))
    /\ frames' = [frames EXCEPT ![Len(frames)] = "else"]
    /\ h' = [h EXCEPT !.acc[Len(h.acc)] = h.bound[Len(h.bound)],
                      !.bound[Len(h.bound)] = {},
                      !.closed = {}]
    /\ UNCHANGED <<pc, errors, warnings, stmtNo, visited, calls, result>>
    /\ UNCHANGED outsideTranspiler

\* the end of visit_IfStatement, visit_ForEachStatement, visit_ProcessDefinition
ExitBlock ==
    /\ pc = "analyzing"
    /\ frames # <<>>
    /\ scopes' = exit_scope(scopes)
    /\ frames' = SubSeq(frames, 1, Len(frames) - 1)
    /\ h' = [h EXCEPT
               !.bound = SubSeq(h.bound, 1, Len(h.bound) - 1),
               !.acc = SubSeq(h.acc, 1, Len(h.acc) - 1),
               !.closed = IF frames[Len(frames)] = "process" THEN {}
                          ELSE h.bound[Len(h.bound)] \cup h.acc[Len(h.acc)]]
    /\ UNCHANGED <<pc, errors, warnings, stmtNo, visited, calls, result>>
    /\ UNCHANGED outsideTranspiler

\* visit_ForEachStatement up to the first statement of the body
VisitForEachStatement(v, iterable) ==
    /\ CanVisit
    /\ Len(frames) < MaxDepth
    /\ errors' = errors \o VisitExpr(iterable, scopes, stmtNo + 1)
    /\ scopes' = define(enter_scope(scopes), v)
    /\ frames' = Append(frames, "for")
    /\ stmtNo' = stmtNo + 1
    /\ visited' = visited + 1
    /\ h' = HistVisit(Stmt("for", v, iterable), TRUE)
    /\ UNCHANGED <<pc, warnings, calls, result>>
    /\ UNCHANGED outsideTranspiler

RECURSIVE defineAll(_, _)
defineAll(chain, names) ==
    IF names = <<>> THEN chain ELSE defineAll(define(chain, Head(names)), Tail(names))

\* visit_ProcessDefinition up to the first statement of the body
VisitProcessDefinition(name, params) ==
    /\ CanVisit
    /\ Len(frames) < MaxDepth
    /\ scopes' = defineAll(enter_scope(define(scopes, name)), params)
    /\ frames' = Append(frames, "process")
    /\ stmtNo' = stmtNo + 1
    /\ visited' = visited + 1
    /\ h' = HistVisit([Stmt("process", name, None) EXCEPT !.params = params], TRUE)
    /\ UNCHANGED <<pc, errors, warnings, calls, result>>
    /\ UNCHANGED outsideTranspiler

----------------------------------------------------------------------------
(* Transpiler.transpile, standard mode *)

ParseFailedMessage == <<Error("Failed to parse the source code", "", 0)>>

\* transpile: self.parser.parse(source) returns nothing
TranspileParseFails ==
    /\ pc = "idle"
    /\ calls < MaxCalls
    /\ calls' = calls + 1
    /\ result' = [code |-> "None", valid |-> FALSE,
                  errors |-> ParseFailedMessage, warnings |-> <<>>]
    /\ h' = [h EXCEPT !.stmt = NoStmt, !.parse = "failed", !.analysed = FALSE]
    /\ UNCHANGED <<pc, scopes, errors, warnings, frames, stmtNo, visited>>
    /\ UNCHANGED outsideTranspiler

\* transpile: the parse gave an AST; analyze says whether analysis was requested
TranspileParsed(analyze) ==
    /\ pc = "idle"
    /\ calls < MaxCalls
    /\ calls' = calls + 1
    /\ pc' = IF analyze THEN "analyzing" ELSE "generate_unchecked"
    /\ stmtNo' = 0
    /\ h' = [HistInit EXCEPT !.errStart = Len(errors), !.errBefore = Len(errors),
                             !.parse = "ok", !.analysed = analyze,
                             !.carried = scopes[1]]
    /\ result' = [code |-> "pending", valid |-> FALSE, errors |-> <<>>, warnings |-> <<>>]
    /\ UNCHANGED <<scopes, errors, warnings, frames, visited>>
    /\ UNCHANGED outsideTranspiler

\* a transpile that generates code whatever the analysis said
AnalyzeReturns_unchecked ==
    /\ pc = "analyzing"
    /\ frames = <<>>
    /\ stmtNo >= 1
    /\ pc' = "generate"
    /\ UNCHANGED <<scopes, errors, warnings, frames, stmtNo, visited, calls, result, h>>
    /\ UNCHANGED outsideTranspiler

\* SemanticAnalyzer.analyze returns; transpile stops here when it is not valid
AnalyzeReturns ==
    /\ pc = "analyzing"
    /\ frames = <<>>
    /\ stmtNo >= 1
    /\ LET valid == Len(errors) = 0
       IN IF valid
          THEN /\ pc' = "generate"
               /\ UNCHANGED result
          ELSE /\ pc' = "idle"
               /\ result' = [code |-> "None", valid |-> FALSE,
                             errors |-> errors, warnings |-> warnings]
    /\ UNCHANGED <<scopes, errors, warnings, frames, stmtNo, visited, calls, h>>
    /\ UNCHANGED outsideTranspiler

GenerateFailedMessage == Error("Error generating code", "", 0)

\* transpile: self.generator.generate(ast) returns text or raises
Generate(raises) ==
    /\ pc \in {"generate", "generate_unchecked"}
    /\ pc' = "idle"
    /\ LET errs == IF pc = "generate" THEN errors ELSE <<>>
           warns == IF pc = "generate" THEN warnings ELSE <<>>
       IN IF raises
          THEN /\ result' = [code |-> "None", valid |-> FALSE,
                             errors |-> Append(errs, GenerateFailedMessage),
                             warnings |-> warns]
               \* errors is the analyzer's own list when analysis ran
               /\ errors' = IF pc = "generate"
                            THEN Append(errors, GenerateFailedMessage) ELSE errors
          ELSE /\ result' = [code |-> "text", valid |-> TRUE,
                             errors |-> errs, warnings |-> warns]
               /\ UNCHANGED errors
    /\ UNCHANGED <<scopes, warnings, frames, stmtNo, visited, calls, h>>
    /\ UNCHANGED outsideTranspiler

----------------------------------------------------------------------------

\* the nodes the visits are fed with
Params == {<<"x", "y">>}
ProcessNames == {"f"}
Initializers == {NumLit, BinOp(VarRef("x"), VarRef("y"))}
Assigned == {NumLit, Call("f", <<VarRef("x")>>, <<>>)}
Returned == {None, VarRef("x")}
Displayed ==
    {<<VarRef("x"), None>>,
     <<Call("format_string", <<>>, <<VarRef("y")>>), None>>,
     <<NumLit, Call("format_message", <<>>, <<VarRef("x")>>)>>}
Conditions == {VarRef("y")}
Iterables == {VarRef("x")}

----------------------------------------------------------------------------
(* RunaLexer: the PLY rule table and the indentation wrapper                 *)
(* (src/runa/lexer.py).  Source text is a sequence of characters; lexpos p   *)
(* of the code is position p + 1 here.                                      *)

MaxLines == 4
MaxLevel == 2
MaxInputs == 2

Lower == {"a", "b", "c", "d", "e", "f", "g", "h", "i", "j", "k", "l", "m",
          "n", "o", "p", "q", "r", "s", "t", "u", "v", "w", "x", "y", "z"}
Upper == {"A", "B", "C", "D", "E", "F", "G", "H", "I", "J", "K", "L", "M",
          "N", "O", "P", "Q", "R", "S", "T", "U", "V", "W", "X", "Y", "Z"}
Letters == Lower \cup Upper
Digits == {"0", "1", "2", "3", "4", "5", "6", "7", "8", "9"}

\* \s of the regular expressions, and t_ignore
Whitespace == {" ", "\t", "\n"}
Ignored == {" ", "\t"}

\* the rules defined by functions, in the order of their definition
FunctionRules == <<
    [type |-> "LET", kind |-> "phrase", req |-> <<<<"L", "e", "t">>>>, opt |-> <<>>],
    [type |-> "SET", kind |-> "phrase", req |-> <<<<"S", "e", "t">>>>, opt |-> <<>>],
    [type |-> "BE", kind |-> "phrase", req |-> <<<<"b", "e">>>>, opt |-> <<>>],
    [type |-> "TO", kind |-> "phrase", req |-> <<<<"t", "o">>>>, opt |-> <<>>],
    [type |-> "AS", kind |-> "phrase", req |-> <<<<"a", "s">>>>, opt |-> <<>>],
    [type |-> "IF", kind |-> "phrase", req |-> <<<<"I", "f">>>>, opt |-> <<>>],
    [type |-> "OTHERWISE", kind |-> "phrase", req |-> <<<<"O", "t", "h", "e", "r", "w", "i", "s", "e">>>>, opt |-> <<>>],
    [type |-> "FOR", kind |-> "phrase", req |-> <<<<"F", "o", "r">>>>, opt |-> <<>>],
    [type |-> "EACH", kind |-> "phrase", req |-> <<<<"e", "a", "c", "h">>>>, opt |-> <<>>],
    [type |-> "IN", kind |-> "phrase", req |-> <<<<"i", "n">>>>, opt |-> <<>>],
    [type |-> "PROCESS", kind |-> "phrase", req |-> <<<<"P", "r", "o", "c", "e", "s", "s">>>>, opt |-> <<>>],
    [type |-> "CALLED", kind |-> "phrase", req |-> <<<<"c", "a", "l", "l", "e", "d">>>>, opt |-> <<>>],
    [type |-> "THAT", kind |-> "phrase", req |-> <<<<"t", "h", "a", "t">>>>, opt |-> <<>>],
    [type |-> "TAKES", kind |-> "phrase", req |-> <<<<"t", "a", "k", "e", "s">>>>, opt |-> <<>>],
    [type |-> "RETURN", kind |-> "phrase", req |-> <<<<"R", "e", "t", "u", "r", "n">>>>, opt |-> <<>>],
    [type |-> "DISPLAY", kind |-> "phrase", req |-> <<<<"D", "i", "s", "p", "l", "a", "y">>>>, opt |-> <<>>],
    [type |-> "WITH", kind |-> "phrase", req |-> <<<<"w", "i", "t", "h">>>>, opt |-> <<>>],
    [type |-> "DEFINE", kind |-> "phrase", req |-> <<<<"D", "e", "f", "i", "n", "e">>>>, opt |-> <<>>],
    [type |-> "CONTAINING", kind |-> "phrase", req |-> <<<<"c", "o", "n", "t", "a", "i", "n", "i", "n", "g">>>>, opt |-> <<>>],
    [type |-> "WHEN", kind |-> "phrase", req |-> <<<<"W", "h", "e", "n">>>>, opt |-> <<>>],
    [type |-> "WHILE", kind |-> "phrase", req |-> <<<<"W", "h", "i", "l", "e">>>>, opt |-> <<>>],
    [type |-> "IS", kind |-> "phrase", req |-> <<<<"i", "s">>>>, opt |-> <<>>],
    [type |-> "NOT", kind |-> "phrase", req |-> <<<<"n", "o", "t">>>>, opt |-> <<>>],
    [type |-> "AND", kind |-> "phrase", req |-> <<<<"a", "n", "d">>>>, opt |-> <<>>],
    [type |-> "OR", kind |-> "phrase", req |-> <<<<"o", "r">>>>, opt |-> <<>>],
    [type |-> "GREATER", kind |-> "phrase", req |-> <<<<"g", "r", "e", "a", "t", "e", "r">>>>, opt |-> <<"t", "h", "a", "n">>],
    [type |-> "LESS", kind |-> "phrase", req |-> <<<<"l", "e", "s", "s">>>>, opt |-> <<"t", "h", "a", "n">>],
    [type |-> "EQUAL", kind |-> "phrase", req |-> <<<<"e", "q", "u", "a", "l">>>>, opt |-> <<"t", "o">>],
    [type |-> "NOT_EQUAL", kind |-> "phrase", req |-> <<<<"n", "o", "t">>, <<"e", "q", "u", "a", "l">>>>, opt |-> <<"t", "o">>],
    [type |-> "PLUS", kind |-> "phrase", req |-> <<<<"p", "l", "u", "s">>>>, opt |-> <<>>],
    [type |-> "MINUS", kind |-> "phrase", req |-> <<<<"m", "i", "n", "u", "s">>>>, opt |-> <<>>],
    [type |-> "MULTIPLIED", kind |-> "phrase", req |-> <<<<"m", "u", "l", "t", "i", "p", "l", "i", "e", "d">>>>, opt |-> <<"b", "y">>],
    [type |-> "DIVIDED", kind |-> "phrase", req |-> <<<<"d", "i", "v", "i", "d", "e", "d">>>>, opt |-> <<"b", "y">>],
    [type |-> "MODULO", kind |-> "phrase", req |-> <<<<"m", "o", "d", "u", "l", "o">>>>, opt |-> <<>>],
    [type |-> "STRING", kind |-> "string"],
    [type |-> "NUMBER", kind |-> "number"],
    [type |-> "BOOLEAN", kind |-> "words", alts |-> <<<<"T", "r", "u", "e">>, <<"F", "a", "l", "s", "e">>>>],
    [type |-> "ID", kind |-> "id"],
    [type |-> "NEWLINE", kind |-> "newline"]
>>

\* the rules defined by strings, longest regular expression first
StringRules == <<
    [type |-> "LPAREN", kind |-> "char", c |-> "("],
    [type |-> "RPAREN", kind |-> "char", c |-> ")"],
    [type |-> "LBRACKET", kind |-> "char", c |-> "["],
    [type |-> "RBRACKET", kind |-> "char", c |-> "]"],
    [type |-> "COLON", kind |-> "char", c |-> ":"],
    [type |-> "COMMA", kind |-> "char", c |-> ","]
>>

\* the master regular expression: an ordered alternation of all rules
LexRules == FunctionRules \o StringRules

\* position after the literal w when the text has it at p, else 0
MatchLit(data, p, w) ==
    IF p + Len(w) - 1 <= Len(data) /\ SubSeq(data, p, p + Len(w) - 1) = w
    THEN p + Len(w) ELSE 0

RECURSIVE ScanWhile(_, _, _)
\* first position from p on whose character is not in the set
ScanWhile(data, p, set) ==
    IF p <= Len(data) /\ data[p] \in set THEN ScanWhile(data, p + 1, set) ELSE p

RECURSIVE ScanUntil(_, _, _)
\* first position from p on whose character is c, or 0
ScanUntil(data, p, c) ==
    IF p > Len(data) THEN 0
    ELSE IF data[p] = c THEN p ELSE ScanUntil(data, p + 1, c)

\* word (\s+ word)? : the suffix is taken when it is there
MatchOptional(data, e, opt) ==
    IF opt = <<>> THEN e
    ELSE LET w == ScanWhile(data, e, Whitespace)
             t == IF w > e THEN MatchLit(data, w, opt) ELSE 0
         IN IF t > 0 THEN t ELSE e

\* word (\s+ word)* (\s+ word)?
MatchPhrase(rule, data, p) ==
    LET e1 == MatchLit(data, p, rule.req[1])
        e2 == IF e1 = 0 \/ Len(rule.req) = 1 THEN e1
              ELSE LET w == ScanWhile(data, e1, Whitespace)
                   IN IF w > e1 THEN MatchLit(data, w, rule.req[2]) ELSE 0
    IN IF e2 = 0 THEN 0 ELSE MatchOptional(data, e2, rule.opt)

\* "[^"]*"
MatchString(data, p) ==
    IF data[p] # "\"" THEN 0
    ELSE LET q == ScanUntil(data, p + 1, "\"") IN IF q = 0 THEN 0 ELSE q + 1

\* \d+(\.\d+)?
MatchNumber(data, p) ==
    LET e == ScanWhile(data, p, Digits)
        f == IF e <= Len(data) /\ data[e] = "." THEN ScanWhile(data, e + 1, Digits) ELSE 0
    IN IF e = p THEN 0 ELSE IF f > e + 1 THEN f ELSE e

\* [a-zA-Z][a-zA-Z0-9_]*
MatchID(data, p) ==
    IF data[p] \in Letters
    THEN ScanWhile(data, p + 1, Letters \cup Digits \cup {"_"}) ELSE 0

\* \n+
MatchNewline(data, p) ==
    LET e == ScanWhile(data, p, {"\n"}) IN IF e = p THEN 0 ELSE e

RECURSIVE MatchWords(_, _, _)
\* word|word|...
MatchWords(alts, data, p) ==
    IF alts = <<>> THEN 0
    ELSE IF MatchLit(data, p, Head(alts)) > 0 THEN MatchLit(data, p, Head(alts))
    ELSE MatchWords(Tail(alts), data, p)

\* position after the match of one rule at p, or 0
MatchEnd(rule, data, p) ==
    CASE rule.kind = "phrase" -> MatchPhrase(rule, data, p)
      [] rule.kind = "string" -> MatchString(data, p)
      [] rule.kind = "number" -> MatchNumber(data, p)
      [] rule.kind = "words" -> MatchWords(rule.alts, data, p)
      [] rule.kind = "id" -> MatchID(data, p)
      [] rule.kind = "newline" -> MatchNewline(data, p)
      [] rule.kind = "char" -> IF data[p] = rule.c THEN p + 1 ELSE 0

RECURSIVE FirstMatch(_, _, _)
\* the first rule from the i-th on that matches at p (0 when none does)
FirstMatch(data, p, i) ==
    IF i > Len(LexRules) THEN 0
    ELSE IF MatchEnd(LexRules[i], data, p) > 0 THEN i
    ELSE FirstMatch(data, p, i + 1)

RECURSIVE DigitsValue(_)
DigitValue(d) == CHOOSE n \in 0..9 : ToString(n) = d
DigitsValue(ds) ==
    IF ds = <<>> THEN 0 ELSE 10 * DigitsValue(SubSeq(ds, 1, Len(ds) - 1)) + DigitValue(ds[Len(ds)])

\* t.value after the rule's function has run
TokenValue(type, text) ==
    CASE type = "STRING" -> SubSeq(text, 2, Len(text) - 1)
      [] type = "NUMBER" ->
            IF \E i \in DOMAIN text : text[i] = "."
            THEN LET d == CHOOSE i \in DOMAIN text : text[i] = "."
                 IN [whole |-> DigitsValue(SubSeq(text, 1, d - 1)),
                     fraction |-> SubSeq(text, d + 1, Len(text))]
            ELSE [whole |-> DigitsValue(text), fraction |-> <<>>]
      [] type = "BOOLEAN" -> text = <<"T", "r", "u", "e">>
      [] OTHER -> text

Token(type, value) == [type |-> type, value |-> value]
NoToken == [type |-> "None"]

RECURSIVE LexToken(_, _)
\* lex.token(): skip ignored characters, report and skip illegal ones, return
\* the token of the first rule that matches, or None at the end of the text
LexToken(data, p) ==
    IF p > Len(data) THEN [tok |-> NoToken, pos |-> p]
    ELSE IF data[p] \in Ignored THEN LexToken(data, p + 1)
    ELSE LET i == FirstMatch(data, p, 1)
         IN IF i = 0 THEN LexToken(data, p + 1)
            ELSE LET e == MatchEnd(LexRules[i], data, p)
                 IN [tok |-> Token(LexRules[i].type,
                                   TokenValue(LexRules[i].type, SubSeq(data, p, e - 1))),
                     pos |-> e]

\* lexdata[i] of the code
CharAt(data, i) == data[i + 1]

RECURSIVE LineStart(_, _)
\* while line_start >= 0 and lexdata[line_start] != '\n': line_start -= 1
LineStart(data, ls) ==
    IF ls >= 0 /\ CharAt(data, ls) # "\n" THEN LineStart(data, ls - 1) ELSE ls

Width(c) == IF c = " " THEN 1 ELSE IF c = "\t" THEN 4 ELSE 0

RECURSIVE SumWidth(_, _, _)
\* the loop over range(from, to)
SumWidth(data, from, to) ==
    IF from >= to THEN 0 ELSE Width(CharAt(data, from)) + SumWidth(data, from + 1, to)

RECURSIVE LeadingWidth(_, _)
\* width of the spaces and tabs that begin at lexpos
LeadingWidth(data, lexpos) ==
    IF lexpos < Len(data) /\ CharAt(data, lexpos) \in Ignored
    THEN Width(CharAt(data, lexpos)) + LeadingWidth(data, lexpos + 1)
    ELSE 0

\* an indentation measure that reads the line after the newline
MeasureIndent_following(data, lexpos) == LeadingWidth(data, lexpos)

\* RunaLexer.token: the indentation computed once a NEWLINE has been matched
MeasureIndent(data, lexpos) ==
    LET line_start == LineStart(data, lexpos - 1)
    IN SumWidth(data, line_start + 1, lexpos)

RECURSIVE PopWhile(_, _)
\* while indent < indentation_stack[-1]: pop
PopWhile(stack, indent) ==
    IF indent < stack[Len(stack)]
    THEN PopWhile(SubSeq(stack, 1, Len(stack) - 1), indent) ELSE stack

Repeat(tok, n) == [i \in 1..n |-> tok]

\* ---- source texts ----

Spaces4 == <<" ", " ", " ", " ">>
Tab == <<"\t">>

RECURSIVE Indentation(_, _)
Indentation(level, unit) ==
    IF level = 0 THEN <<>> ELSE unit \o Indentation(level - 1, unit)

OpenerLine == <<"I", "f", " ", "x", ":">>
PlainLine == <<"R", "e", "t", "u", "r", "n">>

\* indentation levels of the lines of well-formed nested blocks
Profiles(n) ==
    {p \in [1..n -> 0..MaxLevel] :
        p[1] = 0 /\ \A i \in 1..(n - 1) : p[i + 1] <= p[i] + 1}

RECURSIVE BlockText(_, _, _)
\* the text of the lines i.. of a profile: a line followed by a deeper line
\* opens a block
BlockText(p, unit, i) ==
    LET line == Indentation(p[i], unit)
                \o (IF i < Len(p) /\ p[i + 1] > p[i] THEN OpenerLine ELSE PlainLine)
    IN IF i = Len(p) THEN line ELSE line \o <<"\n">> \o BlockText(p, unit, i + 1)

BlockSources ==
    {BlockText(p, unit, 1) : p \in UNION {Profiles(n) : n \in 1..MaxLines},
                             unit \in {Spaces4, Tab}}

OperatorPhrases == <<
    [type |-> "GREATER", text |-> <<"g", "r", "e", "a", "t", "e", "r", " ", "t", "h", "a", "n">>],
    [type |-> "LESS", text |-> <<"l", "e", "s", "s", " ", "t", "h", "a", "n">>],
    [type |-> "EQUAL", text |-> <<"e", "q", "u", "a", "l", " ", "t", "o">>],
    [type |-> "NOT_EQUAL", text |-> <<"n", "o", "t", " ", "e", "q", "u", "a", "l", " ", "t", "o">>],
    [type |-> "MULTIPLIED", text |-> <<"m", "u", "l", "t", "i", "p", "l", "i", "e", "d", " ", "b", "y">>],
    [type |-> "DIVIDED", text |-> <<"d", "i", "v", "i", "d", "e", "d", " ", "b", "y">>]
>>

\* x <operator> y
OperatorSource(op) == <<"x", " ">> \o op.text \o <<" ", "y">>

OperatorSources == {OperatorSource(OperatorPhrases[i]) : i \in DOMAIN OperatorPhrases}

\* Let x be 10
BasicSource == <<"L", "e", "t", " ", "x", " ", "b", "e", " ", "1", "0">>

\* names that begin with the word of a keyword rule, and names that do not
PrefixedNames == { <<"i", "n", "d", "e", "x">>, <<"t", "o", "t", "a", "l">>,
                   <<"b", "e", "s", "t">>, <<"i", "s", "_", "e", "v", "e", "n">>,
                   <<"o", "r", "d", "e", "r">> }
PlainNames == { <<"c", "o", "u", "n", "t">>, <<"x", "1">> }
NameSources == PrefixedNames \cup PlainNames

Sources == BlockSources \cup OperatorSources \cup {BasicSource} \cup NameSources

\* ---- RunaLexer ----

\* RunaLexer.build
InitLexer ==
    lexer = [lexdata |-> <<>>, lexpos |-> 0,
             indentation_stack |-> <<0>>, token_queue |-> <<>>,
             tokens |-> <<>>,     \* what the caller has received since input()
             atEnd |-> TRUE,      \* token() has returned None (or there is no input yet)
             inputs |-> 0,        \* number of input() calls
             last |-> "None",     \* type of the token returned last
             top |-> 0,           \* history: top of the stack before the last NEWLINE
             before |-> <<0>>,    \* history: the stack before the last NEWLINE
             width |-> 0]         \* history: leading width of the line after it

\* RunaLexer.input
Input(data) ==
    /\ lexer.atEnd
    /\ lexer.inputs < MaxInputs
    /\ lexer' = [lexer EXCEPT !.lexdata = data, !.lexpos = 0, !.token_queue = <<>>,
                              !.tokens = <<>>, !.atEnd = FALSE, !.last = "None",
                              !.inputs = lexer.inputs + 1]
    /\ UNCHANGED outsideLexer

Scanned == LexToken(lexer.lexdata, lexer.lexpos + 1)

\* RunaLexer.token: one call, returning a queued token, None, a plain token,
\* or a NEWLINE after which the indentation is measured and compared
token ==
    /\ ~lexer.atEnd
    /\ lexer' =
         IF lexer.token_queue # <<>>
         THEN [lexer EXCEPT !.token_queue = Tail(lexer.token_queue),
                            !.tokens = Append(lexer.tokens, Head(lexer.token_queue)),
                            !.last = Head(lexer.token_queue).type]
         ELSE IF Scanned.tok = NoToken
         THEN [lexer EXCEPT !.lexpos = Scanned.pos - 1, !.atEnd = TRUE, !.last = "None"]
         ELSE IF Scanned.tok.type # "NEWLINE"
         THEN [lexer EXCEPT !.lexpos = Scanned.pos - 1,
                            !.tokens = Append(lexer.tokens, Scanned.tok),
                            !.last = Scanned.tok.type]
         ELSE LET lexpos == Scanned.pos - 1
                  indent == MeasureIndent(lexer.lexdata, lexpos)
                  stack == lexer.indentation_stack
                  current_indent == stack[Len(stack)]
                  popped == PopWhile(stack, indent)
              IN [lexer EXCEPT
                    !.lexpos = lexpos,
                    !.indentation_stack =
                        IF indent > current_indent THEN Append(stack, indent)
                        ELSE IF indent < current_indent THEN popped ELSE stack,
                    !.token_queue =
                        IF indent > current_indent THEN <<Token("INDENT", <<>>)>>
                        ELSE IF indent < current_indent
                             THEN Repeat(Token("DEDENT", <<>>), Len(stack) - Len(popped))
                             ELSE <<>>,
                    !.tokens = Append(lexer.tokens, Scanned.tok),
                    !.last = "NEWLINE",
                    !.top = current_indent,
                    !.before = stack,
                    !.width = LeadingWidth(lexer.lexdata, lexpos)]
    /\ UNCHANGED outsideLexer

NextLexer ==
    \/ \E data \in Sources : Input(data)
    \/ token

----------------------------------------------------------------------------
(* Pattern matching: the match statement compiled to a chain of tests by    *)
(* the two generators (patterns/generator.py, targets/js_generator.py), the *)
(* chain run on a scrutinee, and the runtime matcher (patterns/matcher.py). *)

MaxCases == 2

\* ---- values of the target languages ----

IntV(n) == [t |-> "int", v |-> n]
BoolV(b) == [t |-> "bool", v |-> b]
StrV(s) == [t |-> "str", v |-> s]
ListV(items) == [t |-> "list", v |-> items]
DictV(d) == [t |-> "dict", v |-> d]
\* the value of a missing property in JavaScript
Undefined == [t |-> "undefined", v |-> 0]
\* evaluation ended with an exception
Raised == [t |-> "raise", v |-> 0]

Role == <<"r", "o", "l", "e">>
Active == <<"a", "c", "t", "i", "v", "e">>
Admin == StrV(<<"a", "d", "m", "i", "n">>)
User == StrV(<<"u", "s", "e", "r">>)
EmptyDict == DictV([k \in {} |-> Undefined])

Number(a) == IF a.t = "bool" THEN (IF a.v THEN 1 ELSE 0) ELSE a.v

\* == of Python: a bool is the number 0 or 1
PyEq(a, b) ==
    IF a.t \in {"int", "bool"} /\ b.t \in {"int", "bool"}
    THEN Number(a) = Number(b)
    ELSE a.t = b.t /\ a.v = b.v

\* === of JavaScript against a literal: same type and same primitive value
JsStrictEq(a, b) ==
    a.t = b.t /\ a.t \in {"int", "bool", "str"} /\ a.v = b.v

\* ---- patterns (patterns/nodes.py) ----

WildcardPattern == [p |-> "wildcard"]
LiteralPattern(value) == [p |-> "literal", value |-> value]
VariablePattern(name) == [p |-> "variable", name |-> name]
ListPattern(elements) == [p |-> "list", elements |-> elements]
DictionaryPattern(entries) == [p |-> "dict", entries |-> entries]
RestPattern(name) == [p |-> "rest", name |-> name]
DictionaryEntry(key, value) == [key |-> key, value |-> value]

\* ---- the generated code: places, tests, bindings ----

\* v[i], v[len(v) - n], v["key"]
Idx(i) == [k |-> "idx", n |-> i]
FromEnd(n) == [k |-> "from_end", n |-> n]
Key(key) == [k |-> "key", n |-> key]

Cond(c, path, arg) == [c |-> c, path |-> path, arg |-> arg]
AllOf(parts) == [c |-> "and", parts |-> parts]
True == [c |-> "true"]
False == [c |-> "false"]

\* name = <place>, or name = <place>[start : len - end]
Bind(name, path) == [name |-> name, path |-> path, slice |-> FALSE, start |-> 0, end |-> 0]
BindSlice(name, path, start, end) ==
    [name |-> name, path |-> path, slice |-> TRUE, start |-> start, end |-> end]

RECURSIVE Flatten(_)
Flatten(seqs) == IF seqs = <<>> THEN <<>> ELSE Head(seqs) \o Flatten(Tail(seqs))

IsRest(e) == e.p = "rest"
HasRest(elements) == \E i \in DOMAIN elements : IsRest(elements[i])
\* position of the first rest element
RestIndex(elements) ==
    CHOOSE i \in DOMAIN elements :
        IsRest(elements[i]) /\ \A j \in 1..(i - 1) : ~IsRest(elements[j])
BeforeRest(elements) == SubSeq(elements, 1, RestIndex(elements) - 1)
AfterRest(elements) == SubSeq(elements, RestIndex(elements) + 1, Len(elements))

RECURSIVE PyCondition(_, _)
\* _generate_pattern_condition of the Python generator
PyCondition(pattern, path) ==
    CASE pattern.p \in {"wildcard", "variable", "rest"} -> True
      [] pattern.p = "literal" -> Cond("py_eq", path, pattern.value)
      [] pattern.p = "list" ->
            LET elements == pattern.elements
            IN IF ~HasRest(elements)
               THEN IF elements = <<>> THEN Cond("py_len_eq", path, 0)
                    ELSE AllOf(<<Cond("isinstance_list", path, 0),
                                 Cond("py_len_eq", path, Len(elements))>>
                               \o [i \in 1..Len(elements) |->
                                      PyCondition(elements[i], Append(path, Idx(i - 1)))])
               ELSE LET before_rest == BeforeRest(elements)
                        after_rest == AfterRest(elements)
                    IN AllOf(<<Cond("isinstance_list", path, 0),
                               Cond("py_len_ge", path, Len(before_rest) + Len(after_rest))>>
                             \o [i \in 1..Len(before_rest) |->
                                    PyCondition(before_rest[i], Append(path, Idx(i - 1)))]
                             \o [i \in 1..Len(after_rest) |->
                                    PyCondition(after_rest[i],
                                        Append(path, FromEnd(Len(after_rest) + (i - 1))))])
      [] pattern.p = "dict" ->
            LET entries == pattern.entries
            IN IF entries = <<>>
               THEN AllOf(<<Cond("isinstance_dict", path, 0), Cond("py_len_eq", path, 0)>>)
               ELSE AllOf(<<Cond("isinstance_dict", path, 0)>>
                          \o Flatten([i \in 1..Len(entries) |->
                                <<Cond("py_in", path, entries[i].key),
                                  PyCondition(entries[i].value,
                                              Append(path, Key(entries[i].key)))>>]))
      [] OTHER -> False

RECURSIVE JsCondition(_, _)
\* _generate_pattern_condition of the JavaScript generator
JsCondition(pattern, path) ==
    CASE pattern.p \in {"wildcard", "variable", "rest"} -> True
      [] pattern.p = "literal" -> Cond("js_eq", path, pattern.value)
      [] pattern.p = "list" ->
            LET elements == pattern.elements
            IN IF ~HasRest(elements)
               THEN AllOf(<<Cond("is_array", path, 0),
                            Cond("js_length_eq", path, Len(elements))>>
                          \o [i \in 1..Len(elements) |->
                                 JsCondition(elements[i], Append(path, Idx(i - 1)))])
               ELSE LET before_rest == BeforeRest(elements)
                        after_rest == AfterRest(elements)
                    IN AllOf(<<Cond("is_array", path, 0),
                               Cond("js_length_ge", path, Len(before_rest) + Len(after_rest))>>
                             \o [i \in 1..Len(before_rest) |->
                                    JsCondition(before_rest[i], Append(path, Idx(i - 1)))]
                             \o [i \in 1..Len(after_rest) |->
                                    JsCondition(after_rest[i],
                                        Append(path, FromEnd(Len(after_rest) - (i - 1))))])
      [] pattern.p = "dict" ->
            LET entries == pattern.entries
            IN IF entries = <<>>
               THEN AllOf(<<Cond("is_object", path, 0), Cond("js_keys_length_eq", path, 0)>>)
               ELSE AllOf(<<Cond("is_object", path, 0)>>
                          \o Flatten([i \in 1..Len(entries) |->
                                <<Cond("js_in", path, entries[i].key),
                                  JsCondition(entries[i].value,
                                              Append(path, Key(entries[i].key)))>>]))
      [] OTHER -> False

RECURSIVE PatternBindings(_, _, _)
\* _generate_pattern_bindings, the same in both generators but for the place
\* an element after the rest is read from
PatternBindings(target, pattern, path) ==
    CASE pattern.p = "variable" /\ pattern.name # "_" -> <<Bind(pattern.name, path)>>
      [] pattern.p = "list" ->
            LET elements == pattern.elements
            IN IF HasRest(elements)
               THEN LET before_rest == BeforeRest(elements)
                        after_rest == AfterRest(elements)
                        rest_pattern == elements[RestIndex(elements)]
                    IN Flatten([i \in 1..Len(before_rest) |->
                            PatternBindings(target, before_rest[i], Append(path, Idx(i - 1)))])
                       \o (IF rest_pattern.name # ""
                           THEN <<BindSlice(rest_pattern.name, path,
                                            Len(before_rest), Len(after_rest))>>
                           ELSE <<>>)
                       \o Flatten([i \in 1..Len(after_rest) |->
                            PatternBindings(target, after_rest[i],
                                Append(path, FromEnd(IF target = "python"
                                                     THEN Len(after_rest) + (i - 1)
                                                     ELSE Len(after_rest) - (i - 1))))])
               ELSE Flatten([i \in 1..Len(elements) |->
                        PatternBindings(target, elements[i], Append(path, Idx(i - 1)))])
      [] pattern.p = "dict" ->
            Flatten([i \in 1..Len(pattern.entries) |->
                PatternBindings(target, pattern.entries[i].value,
                                Append(path, Key(pattern.entries[i].key)))])
      [] OTHER -> <<>>

Line(kw, cond, bindings, case) ==
    [kw |-> kw, cond |-> cond, bindings |-> bindings, case |-> case]

\* the catch-all test of the Python visit_MatchExpression
is_wildcard(pattern) ==
    pattern.p = "wildcard" \/ (pattern.p = "variable" /\ pattern.name = "_")

ElseLine == Line("else", True, <<>>, 0)

\* visit_MatchExpression of the Python generator: if / elif per case in source
\* order, and an else when no case is a catch-all
PyChain(cases) ==
    [i \in 1..Len(cases) |->
        Line(IF i = 1 THEN "if" ELSE "elif",
             IF is_wildcard(cases[i]) THEN True ELSE PyCondition(cases[i], <<>>),
             PatternBindings("python", cases[i], <<>>), i)]
    \o (IF \E i \in DOMAIN cases : is_wildcard(cases[i]) THEN <<>> ELSE <<ElseLine>>)

\* visit_MatchExpression of the JavaScript generator: if / else if per case in
\* source order, and always an else
JsChain(cases) ==
    [i \in 1..Len(cases) |->
        Line(IF i = 1 THEN "if" ELSE "elif",
             JsCondition(cases[i], <<>>),
             PatternBindings("javascript", cases[i], <<>>), i)]
    \o <<ElseLine>>

\* ---- running the generated code ----

Size(x) == IF x.t = "dict" THEN Cardinality(DOMAIN x.v) ELSE Len(x.v)
Item(x, i) == IF x.t = "str" THEN StrV(<<x.v[i + 1]>>) ELSE x.v[i + 1]

\* one subscript in Python: IndexError, KeyError and TypeError raise, and a
\* negative index counts from the end
PyStep(step, x) ==
    CASE x.t = "raise" -> Raised
      [] step.k = "idx" ->
            IF x.t \in {"list", "str"} /\ step.n < Size(x) THEN Item(x, step.n) ELSE Raised
      [] step.k = "from_end" ->
            IF x.t \in {"list", "str"}
            THEN LET idx == Size(x) - step.n
                     j == IF idx < 0 THEN idx + Size(x) ELSE idx
                 IN IF j >= 0 /\ j < Size(x) THEN Item(x, j) ELSE Raised
            ELSE Raised
      [] step.k = "key" ->
            IF x.t = "dict" /\ step.n \in DOMAIN x.v THEN x.v[step.n] ELSE Raised

\* one subscript in JavaScript: a missing property is undefined, and only a
\* property of undefined raises
JsStep(step, x) ==
    CASE x.t \in {"raise", "undefined"} -> Raised
      [] step.k = "idx" ->
            IF x.t \in {"list", "str"} /\ step.n < Size(x) THEN Item(x, step.n) ELSE Undefined
      [] step.k = "from_end" ->
            IF x.t \in {"list", "str"} /\ Size(x) - step.n >= 0 /\ Size(x) - step.n < Size(x)
            THEN Item(x, Size(x) - step.n) ELSE Undefined
      [] step.k = "key" ->
            IF x.t = "dict" /\ step.n \in DOMAIN x.v THEN x.v[step.n] ELSE Undefined

RECURSIVE Place(_, _, _)
\* the value of the place path under the scrutinee x
Place(target, path, x) ==
    IF path = <<>> THEN x
    ELSE Place(target, Tail(path),
               IF target = "python" THEN PyStep(Head(path), x) ELSE JsStep(Head(path), x))

Truth(b) == IF b THEN "true" ELSE "false"

\* key in str of Python
Substring(key, s) == \E i \in 1..(Len(s) + 1) : MatchLit(s, i, key) > 0 \/ key = <<>>

\* one test of Python on the value x of its place
PyTest(cond, x) ==
    CASE x.t = "raise" -> "raise"
      [] cond.c = "py_eq" -> Truth(PyEq(x, cond.arg))
      [] cond.c = "isinstance_list" -> Truth(x.t = "list")
      [] cond.c = "isinstance_dict" -> Truth(x.t = "dict")
      [] cond.c = "py_len_eq" ->
            IF x.t \in {"list", "str", "dict"} THEN Truth(Size(x) = cond.arg) ELSE "raise"
      [] cond.c = "py_len_ge" ->
            IF x.t \in {"list", "str", "dict"} THEN Truth(Size(x) >= cond.arg) ELSE "raise"
      [] cond.c = "py_in" ->
            CASE x.t = "dict" -> Truth(cond.arg \in DOMAIN x.v)
              [] x.t = "list" -> Truth(\E i \in DOMAIN x.v : PyEq(x.v[i], StrV(cond.arg)))
              [] x.t = "str" -> Truth(Substring(cond.arg, x.v))
              [] OTHER -> "raise"

\* one test of JavaScript on the value x of its place
JsTest(cond, x) ==
    CASE x.t = "raise" -> "raise"
      [] cond.c = "js_eq" -> Truth(JsStrictEq(x, cond.arg))
      [] cond.c = "is_array" -> Truth(x.t = "list")
      [] cond.c = "is_object" -> Truth(x.t \in {"list", "dict"})
      [] cond.c = "js_length_eq" ->
            IF x.t = "undefined" THEN "raise"
            ELSE Truth(x.t \in {"list", "str"} /\ Size(x) = cond.arg)
      [] cond.c = "js_length_ge" ->
            IF x.t = "undefined" THEN "raise"
            ELSE Truth(x.t \in {"list", "str"} /\ Size(x) >= cond.arg)
      [] cond.c = "js_keys_length_eq" ->
            IF x.t = "undefined" THEN "raise"
            ELSE Truth((IF x.t \in {"list", "str", "dict"} THEN Size(x) ELSE 0) = cond.arg)
      [] cond.c = "js_in" ->
            IF x.t \in {"list", "dict"}
            THEN Truth(x.t = "dict" /\ cond.arg \in DOMAIN x.v) ELSE "raise"

RECURSIVE Eval(_, _, _)
RECURSIVE EvalAll(_, _, _)
\* the value of a generated condition on the scrutinee: "true", "false", or
\* "raise" when its evaluation raises
Eval(target, cond, x) ==
    CASE cond.c = "true" -> "true"
      [] cond.c = "false" -> "false"
      [] cond.c = "and" -> EvalAll(target, cond.parts, x)
      [] OTHER -> IF target = "python" THEN PyTest(cond, Place(target, cond.path, x))
                  ELSE JsTest(cond, Place(target, cond.path, x))

\* a and b and ...: left to right, stopping at the first that is not true
EvalAll(target, parts, x) ==
    IF parts = <<>> THEN "true"
    ELSE LET r == Eval(target, Head(parts), x)
         IN IF r = "true" THEN EvalAll(target, Tail(parts), x) ELSE r

\* the value a binding assigns
BoundValue(target, b, x) ==
    LET at == Place(target, b.path, x)
    IN IF ~b.slice THEN at
       ELSE IF at.t # "list" THEN Raised
       ELSE ListV(SubSeq(at.v, b.start + 1, Len(at.v) - b.end))

RECURSIVE RunBindings(_, _, _, _)
\* the assignments of a branch in order, as [name, value]; a later assignment
\* to a name replaces the earlier one
RunBindings(target, bindings, x, env) ==
    IF bindings = <<>> THEN env
    ELSE RunBindings(target, Tail(bindings), x,
            Append(env, [name |-> Head(bindings).name,
                         value |-> BoundValue(target, Head(bindings), x)]))

Outcome(executed, raised, env) == [executed |-> executed, raised |-> raised, env |-> env]
NoOutcome == Outcome(<<>>, FALSE, <<>>)

RECURSIVE RunLines(_, _, _, _, _)
\* the statements of the chain in order: an if begins a statement, an elif or
\* else belongs to the statement before it and runs only when no branch of that
\* statement has been taken
RunLines(target, lines, x, taken, out) ==
    IF lines = <<>> THEN out
    ELSE LET line == Head(lines)
             skip == line.kw # "if" /\ taken
             r == Eval(target, line.cond, x)
             env == RunBindings(target, line.bindings, x, out.env)
         IN IF skip THEN RunLines(target, Tail(lines), x, taken, out)
            ELSE IF r = "raise" THEN Outcome(out.executed, TRUE, out.env)
            ELSE IF r = "false" THEN RunLines(target, Tail(lines), x, FALSE, out)
            ELSE IF \E i \in DOMAIN env : env[i].value.t = "raise"
                 THEN Outcome(out.executed, TRUE, out.env)
                 ELSE RunLines(target, Tail(lines), x, TRUE,
                               Outcome(Append(out.executed, line.case), FALSE, env))

\* a block that declares the same const twice is a SyntaxError of the script
DeclaresTwice(line) ==
    \E i, j \in DOMAIN line.bindings :
        i # j /\ line.bindings[i].name = line.bindings[j].name

\* the generated statement run on the scrutinee x
RunChain(target, chain, x) ==
    IF target = "javascript" /\ \E i \in DOMAIN chain : DeclaresTwice(chain[i])
    THEN Outcome(<<>>, TRUE, <<>>)
    ELSE RunLines(target, chain, x, FALSE, NoOutcome)

\* ---- the runtime matcher (patterns/matcher.py) ----

MatchResult(success, bindings) == [success |-> success, bindings |-> bindings]

\* MatchResult.merge: bindings as [name, value], one per name
merge(self, other) ==
    IF ~self.success \/ ~other.success THEN MatchResult(FALSE, <<>>)
    ELSE IF \E i \in DOMAIN other.bindings : \E j \in DOMAIN self.bindings :
                /\ self.bindings[j].name = other.bindings[i].name
                /\ ~PyEq(self.bindings[j].value, other.bindings[i].value)
    THEN MatchResult(FALSE, <<>>)
    ELSE MatchResult(TRUE,
            self.bindings
            \o SelectSeq(other.bindings,
                  LAMBDA b : \A j \in DOMAIN self.bindings : self.bindings[j].name # b.name))

RECURSIVE match_pattern(_, _)
RECURSIVE MatchEach(_, _, _)
RECURSIVE MatchEntries(_, _, _)

\* the loops of match_list_pattern: each element against its value, merged,
\* stopping at the first failure
MatchEach(elems, values, acc) ==
    IF elems = <<>> \/ ~acc.success THEN acc
    ELSE MatchEach(Tail(elems), Tail(values),
                   merge(acc, match_pattern(Head(elems), Head(values))))

match_list_pattern(pattern, value) ==
    LET elements == pattern.elements
    IN IF value.t # "list" THEN MatchResult(FALSE, <<>>)
       ELSE IF elements = <<>> THEN MatchResult(Len(value.v) = 0, <<>>)
       ELSE IF HasRest(elements)
       THEN LET before_rest == BeforeRest(elements)
                after_rest == AfterRest(elements)
                rest_pattern == elements[RestIndex(elements)]
                n == Len(value.v)
            IN IF n < Len(before_rest) + Len(after_rest) THEN MatchResult(FALSE, <<>>)
               ELSE LET r1 == MatchEach(before_rest, SubSeq(value.v, 1, Len(before_rest)),
                                        MatchResult(TRUE, <<>>))
                        r2 == MatchEach(after_rest,
                                        SubSeq(value.v, n - Len(after_rest) + 1, n), r1)
                    IN IF ~r2.success THEN r2
                       ELSE IF rest_pattern.name # ""
                       THEN merge(r2, MatchResult(TRUE,
                              <<[name |-> rest_pattern.name,
                                 value |-> ListV(SubSeq(value.v, Len(before_rest) + 1,
                                                        n - Len(after_rest)))]>>))
                       ELSE r2
       ELSE IF Len(value.v) # Len(elements) THEN MatchResult(FALSE, <<>>)
       ELSE MatchEach(elements, value.v, MatchResult(TRUE, <<>>))

\* the loop of match_dictionary_pattern
MatchEntries(entries, value, acc) ==
    IF entries = <<>> \/ ~acc.success THEN acc
    ELSE IF Head(entries).key \notin DOMAIN value.v THEN MatchResult(FALSE, <<>>)
    ELSE MatchEntries(Tail(entries), value,
            merge(acc, match_pattern(Head(entries).value, value.v[Head(entries).key])))

match_dictionary_pattern(pattern, value) ==
    IF value.t # "dict" THEN MatchResult(FALSE, <<>>)
    ELSE IF pattern.entries = <<>> THEN MatchResult(Cardinality(DOMAIN value.v) = 0, <<>>)
    ELSE MatchEntries(pattern.entries, value, MatchResult(TRUE, <<>>))

match_pattern(pattern, value) ==
    CASE pattern.p = "wildcard" -> MatchResult(TRUE, <<>>)
      [] pattern.p = "literal" -> MatchResult(PyEq(value, pattern.value), <<>>)
      [] pattern.p = "variable" ->
            MatchResult(TRUE, <<[name |-> pattern.name, value |-> value]>>)
      [] pattern.p = "list" -> match_list_pattern(pattern, value)
      [] pattern.p = "dict" -> match_dictionary_pattern(pattern, value)
      [] pattern.p = "rest" ->
            IF pattern.name # ""
            THEN MatchResult(TRUE, <<[name |-> pattern.name, value |-> value]>>)
            ELSE MatchResult(TRUE, <<>>)
      [] OTHER -> MatchResult(FALSE, <<>>)

\* ---- the match statements and scrutinees fed to the generators ----

Patterns == {
    WildcardPattern,
    LiteralPattern(IntV(1)),
    VariablePattern("x"),
    VariablePattern("_"),
    ListPattern(<<>>),
    ListPattern(<<VariablePattern("x"), VariablePattern("x")>>),
    ListPattern(<<VariablePattern("x"), RestPattern("r"),
                  VariablePattern("y"), VariablePattern("z")>>),
    ListPattern(<<RestPattern("r"), LiteralPattern(IntV(2)), LiteralPattern(IntV(3))>>),
    DictionaryPattern(<<>>),
    DictionaryPattern(<<DictionaryEntry(Role, LiteralPattern(Admin))>>) }

CaseLists == UNION {[1..n -> Patterns] : n \in 1..MaxCases}

\* the scrutinees, listed (values of different types are not compared)
ValueList == <<
    IntV(1), IntV(2),
    ListV(<<>>),
    ListV(<<IntV(1), IntV(2)>>),
    ListV(<<IntV(1), IntV(2), IntV(3)>>),
    EmptyDict,
    DictV(Role :> Admin),
    DictV((Role :> Admin) @@ (Active :> BoolV(TRUE))),
    DictV(Role :> User) >>

NoValue == [t |-> "none", v |-> 0]

InitMatch ==
    match = [phase |-> "idle", target |-> "none", cases |-> <<>>, chain |-> <<>>,
             compiled |-> "none", value |-> NoValue, outcome |-> NoOutcome,
             result |-> MatchResult(FALSE, <<>>)]

\* PyCodeGenerator.visit_MatchExpression: always returns the chain (a
\* behaviour follows one match statement or one call of the matcher)
visit_MatchExpression(cases) ==
    /\ match.phase = "idle"
    /\ match' = [phase |-> "compiled", target |-> "python", cases |-> cases,
                 chain |-> PyChain(cases), compiled |-> "generated",
                 value |-> NoValue, outcome |-> NoOutcome,
                 result |-> MatchResult(FALSE, <<>>)]
    /\ UNCHANGED outsideMatch

\* JsCodeGenerator.visit_MatchExpression: always returns the chain
JsVisitMatchExpression(cases) ==
    /\ match.phase = "idle"
    /\ match' = [phase |-> "compiled", target |-> "javascript", cases |-> cases,
                 chain |-> JsChain(cases), compiled |-> "generated",
                 value |-> NoValue, outcome |-> NoOutcome,
                 result |-> MatchResult(FALSE, <<>>)]
    /\ UNCHANGED outsideMatch

\* the generated statement is run with the scrutinee x
RunMatch(x) ==
    /\ match.phase \in {"compiled", "ran"}
    /\ match' = [match EXCEPT !.phase = "ran", !.value = x,
                              !.outcome = RunChain(match.target, match.chain, x)]
    /\ UNCHANGED outsideMatch

\* match_pattern called at run time
RuntimeMatch(pattern, x) ==
    /\ match.phase = "idle"
    /\ match' = [phase |-> "matched", target |-> "none", cases |-> <<pattern>>,
                 chain |-> <<>>, compiled |-> "none", value |-> x,
                 outcome |-> NoOutcome, result |-> match_pattern(pattern, x)]
    /\ UNCHANGED outsideMatch

NextMatch ==
    \/ \E cases \in CaseLists : visit_MatchExpression(cases)
    \/ \E cases \in CaseLists : JsVisitMatchExpression(cases)
    \/ \E i \in DOMAIN ValueList : RunMatch(ValueList[i])
    \/ \E pattern \in Patterns, i \in DOMAIN ValueList : RuntimeMatch(pattern, ValueList[i])

----------------------------------------------------------------------------
(* The type layer: TypeInferer and TypeChecker (src/runa/types).  A type is *)
(* an object; the classes of types/nodes.py define no __eq__, so the `==`   *)
(* of the code is object identity.  Field obj names the object: the objects *)
(* the TypeInferer builds for itself have obj "inferer", and an annotation  *)
(* built by the parser carries the name of the place it was parsed at.      *)
(* Equality of these records is therefore identity of the objects.          *)

\* ---- type objects (types/nodes.py) ----
Object(cls, name, args, obj) == [cls |-> cls, name |-> name, args |-> args, obj |-> obj]

PrimitiveType(name, obj) == Object("PrimitiveType", name, <<>>, obj)
AnyType(obj) == Object("AnyType", "Any", <<>>, obj)
UnionType(types_, obj) == Object("UnionType", "", types_, obj)
ListType(element_type, obj) == Object("ListType", "", <<element_type>>, obj)
DictionaryType(key_type, value_type, obj) == Object("DictionaryType", "", <<key_type, value_type>>, obj)
FunctionType(param_types, return_type) == Object("FunctionType", "", Append(param_types, return_type), "call")

\* Python's None where a type is looked up and not found
NoType == Object("NoneType", "", <<>>, "")

isinstance(type_, cls) == type_.cls = cls

\* TypeInferer._initialize_built_ins
integer_type == PrimitiveType("Integer", "inferer")
float_type == PrimitiveType("Float", "inferer")
string_type == PrimitiveType("String", "inferer")
boolean_type == PrimitiveType("Boolean", "inferer")
any_type == AnyType("inferer")

\* ---- the nodes the type layer reads (ast/nodes.py, types/nodes.py) ----
StringLiteral == [k |-> "StringLiteral"]
\* py is the Python class of node.value: "int", "float" or "bool"
NumberLiteral(py) == [k |-> "NumberLiteral", py |-> py]
BooleanLiteral == [k |-> "BooleanLiteral"]
VariableReference(name) == [k |-> "VariableReference", name |-> name]
BinaryOperation(left, operator, right) ==
    [k |-> "BinaryOperation", left |-> left, operator |-> operator, right |-> right]
\* named_arguments is a sequence of <<name, value>> pairs
FunctionCall(name, named_arguments) ==
    [k |-> "FunctionCall", name |-> name, named_arguments |-> named_arguments]

Declaration(name, value) == [k |-> "Declaration", name |-> name, value |-> value]
TypedDeclaration(name, type_annotation, value) ==
    [k |-> "TypedDeclaration", name |-> name, type_annotation |-> type_annotation, value |-> value]
Assignment(name, value) == [k |-> "Assignment", name |-> name, value |-> value]
ReturnStatement(value) == [k |-> "ReturnStatement", value |-> value]
ProcessDefinition(name, parameters, body) ==
    [k |-> "ProcessDefinition", name |-> name, parameters |-> parameters, body |-> body]
\* else_block is <<>> where the statement has no Otherwise
IfStatement(condition, then_block, else_block) ==
    [k |-> "IfStatement", condition |-> condition, then_block |-> then_block,
     else_block |-> else_block]
ForEachStatement(variable, iterable, body) ==
    [k |-> "ForEachStatement", variable |-> variable, iterable |-> iterable, body |-> body]
ListExpression(elements) == [k |-> "ListExpression", elements |-> elements]
\* entries is a sequence of DictionaryEntry records
DictionaryExpression(entries) == [k |-> "DictionaryExpression", entries |-> entries]

\* ---- TypeEnvironment: the chain root..current, one record per environment ----
VariableNames == {"x", "y", "z", "a", "b", "sum"}
FunctionNames == {"add"}

TypeEnvironment ==
    [variables |-> [n \in VariableNames |-> NoType], functions |-> [n \in FunctionNames |-> NoType]]

RECURSIVE get_variable_type(_, _)
get_variable_type(env, name) ==
    IF env[Len(env)].variables[name] # NoType THEN env[Len(env)].variables[name]
    ELSE IF Len(env) > 1 THEN get_variable_type(SubSeq(env, 1, Len(env) - 1), name)
    ELSE NoType

set_variable_type(env, name, type_) ==
    [env EXCEPT ![Len(env)].variables[name] = type_]

RECURSIVE get_function_type(_, _)
get_function_type(env, name) ==
    IF name \notin FunctionNames THEN NoType
    ELSE IF env[Len(env)].functions[name] # NoType THEN env[Len(env)].functions[name]
    ELSE IF Len(env) > 1 THEN get_function_type(SubSeq(env, 1, Len(env) - 1), name)
    ELSE NoType

set_function_type(env, name, type_) ==
    [env EXCEPT ![Len(env)].functions[name] = type_]

NestedScope(env) == Append(env, TypeEnvironment)

\* ---- TypeInferer (types/inference.py) ----
Arithmetic == {"PLUS", "MINUS", "MULTIPLIED", "DIVIDED", "MODULO"}
Comparison == {"GREATER", "LESS", "EQUAL", "NOT_EQUAL"}
Logical == {"AND", "OR"}

InfererIsNumeric(type_) == type_ = integer_type \/ type_ = float_type

_infer_binary_operation(operator, left_type, right_type) ==
    IF operator \in Arithmetic
    THEN IF operator = "PLUS" /\ (left_type = string_type \/ right_type = string_type)
         THEN string_type
         ELSE IF InfererIsNumeric(left_type) /\ InfererIsNumeric(right_type)
         THEN IF left_type = float_type \/ right_type = float_type
              THEN float_type
              ELSE integer_type
         ELSE any_type
    ELSE IF operator \in Comparison THEN boolean_type
    ELSE IF operator \in Logical THEN boolean_type
    ELSE any_type

_infer_number_literal(node) ==
    IF node.py \in {"int", "bool"} THEN integer_type ELSE float_type

_infer_variable_reference(node, env) ==
    IF get_variable_type(env, node.name) # NoType
    THEN get_variable_type(env, node.name)
    ELSE any_type

_infer_function_call(node, env) ==
    LET func_type == get_function_type(env, node.name)
    IN  IF func_type # NoType /\ isinstance(func_type, "FunctionType")
        THEN func_type.args[Len(func_type.args)]
        ELSE any_type

RECURSIVE _types_are_compatible(_, _)

\* objects the inferer builds for a literal carry obj "literal"
_infer_list_expression(elem_types) ==
    IF elem_types = <<>> THEN ListType(any_type, "literal")
    ELSE IF \E i \in 2..Len(elem_types) : ~ _types_are_compatible(elem_types[1], elem_types[i])
    THEN ListType(any_type, "literal")
    ELSE ListType(elem_types[1], "literal")

RECURSIVE EntryType(_, _)
\* the loop of _infer_dictionary_expression over the keys, or the values, of
\* entries[1:]: the type becomes Any at the first type it is not compatible with
EntryType(type_, other_types) ==
    IF other_types = <<>> THEN type_
    ELSE EntryType(IF ~ _types_are_compatible(type_, Head(other_types)) THEN any_type ELSE type_,
                   Tail(other_types))

_infer_dictionary_expression(key_types, value_types) ==
    IF key_types = <<>> THEN DictionaryType(any_type, any_type, "literal")
    ELSE DictionaryType(EntryType(Head(key_types), Tail(key_types)),
                        EntryType(Head(value_types), Tail(value_types)), "literal")

RECURSIVE infer_type(_, _)
infer_type(node, env) ==
    CASE node.k = "StringLiteral" -> string_type
      [] node.k = "NumberLiteral" -> _infer_number_literal(node)
      [] node.k = "BooleanLiteral" -> boolean_type
      [] node.k = "VariableReference" -> _infer_variable_reference(node, env)
      [] node.k = "BinaryOperation" ->
            _infer_binary_operation(node.operator, infer_type(node.left, env), infer_type(node.right, env))
      [] node.k = "FunctionCall" -> _infer_function_call(node, env)
      [] node.k = "ListExpression" ->
            _infer_list_expression([i \in DOMAIN node.elements |->
                                       infer_type(node.elements[i], env)])
      [] node.k = "DictionaryExpression" ->
            _infer_dictionary_expression(
                [i \in DOMAIN node.entries |-> infer_type(node.entries[i].key, env)],
                [i \in DOMAIN node.entries |-> infer_type(node.entries[i].value, env)])
      [] OTHER -> any_type

_types_are_compatible(type1, type2) ==
    IF type1 = type2 THEN TRUE
    ELSE IF isinstance(type1, "AnyType") \/ isinstance(type2, "AnyType") THEN TRUE
    ELSE IF InfererIsNumeric(type1) /\ InfererIsNumeric(type2) THEN TRUE
    ELSE IF /\ isinstance(type1, "ListType") /\ isinstance(type2, "ListType")
            /\ _types_are_compatible(type1.args[1], type2.args[1]) THEN TRUE
    ELSE IF /\ isinstance(type1, "DictionaryType") /\ isinstance(type2, "DictionaryType")
            /\ _types_are_compatible(type1.args[1], type2.args[1])
            /\ _types_are_compatible(type1.args[2], type2.args[2]) THEN TRUE
    ELSE IF isinstance(type1, "UnionType")
    THEN \E i \in DOMAIN type1.args : _types_are_compatible(type1.args[i], type2)
    ELSE IF isinstance(type2, "UnionType")
    THEN \E i \in DOMAIN type2.args : _types_are_compatible(type1, type2.args[i])
    ELSE FALSE

\* objects _unify_types builds carry obj "unified"
RECURSIVE _unify_types(_, _)
_unify_types(type1, type2) ==
    IF type1 = type2 THEN type1
    ELSE IF isinstance(type1, "AnyType") THEN type2
    ELSE IF isinstance(type2, "AnyType") THEN type1
    ELSE IF InfererIsNumeric(type1) /\ InfererIsNumeric(type2)
    THEN IF type1 = float_type \/ type2 = float_type THEN float_type ELSE integer_type
    ELSE IF isinstance(type1, "ListType") /\ isinstance(type2, "ListType")
    THEN ListType(_unify_types(type1.args[1], type2.args[1]), "unified")
    ELSE IF isinstance(type1, "DictionaryType") /\ isinstance(type2, "DictionaryType")
    THEN DictionaryType(_unify_types(type1.args[1], type2.args[1]),
                        _unify_types(type1.args[2], type2.args[2]), "unified")
    ELSE IF isinstance(type1, "UnionType")
    THEN IF ~ \E i \in DOMAIN type1.args : _types_are_compatible(type1.args[i], type2)
         THEN UnionType(Append(type1.args, type2), "unified")
         ELSE type1
    ELSE IF isinstance(type2, "UnionType")
    THEN IF ~ \E i \in DOMAIN type2.args : _types_are_compatible(type1, type2.args[i])
         THEN UnionType(<<type1>> \o type2.args, "unified")
         ELSE type2
    ELSE UnionType(<<type1, type2>>, "unified")

RECURSIVE BindParameters(_, _, _)
BindParameters(env, parameters, type_) ==
    IF parameters = <<>> THEN env
    ELSE BindParameters(set_variable_type(env, Head(parameters), type_), Tail(parameters), type_)

AnyTypes(n) == [i \in 1..n |-> any_type]

\* the environment a block leaves to its caller: its own scope is dropped
Leave(env) == SubSeq(env, 1, Len(env) - 1)

RECURSIVE _analyze_statement(_, _)
RECURSIVE AnalyzeEach(_, _)
_analyze_statement(stmt, env) ==
    CASE stmt.k = "Declaration" ->
            set_variable_type(env, stmt.name, infer_type(stmt.value, env))
      [] stmt.k = "Assignment" ->
            LET value_type == infer_type(stmt.value, env)
                var_type == get_variable_type(env, stmt.name)
            IN  IF var_type # NoType
                THEN set_variable_type(env, stmt.name, _unify_types(var_type, value_type))
                ELSE set_variable_type(env, stmt.name, value_type)
      [] stmt.k = "ProcessDefinition" ->
            LET declared == set_function_type(env, stmt.name,
                                FunctionType(AnyTypes(Len(stmt.parameters)), any_type))
                func_env == BindParameters(NestedScope(declared), stmt.parameters, any_type)
            IN  Leave(AnalyzeEach(stmt.body, func_env))
      [] stmt.k = "ForEachStatement" ->
            LET iterable_type == infer_type(stmt.iterable, env)
                elem_type == IF isinstance(iterable_type, "ListType")
                             THEN iterable_type.args[1] ELSE any_type
                loop_env == set_variable_type(NestedScope(env), stmt.variable, elem_type)
            IN  Leave(AnalyzeEach(stmt.body, loop_env))
      [] OTHER -> env

AnalyzeEach(statements, env) ==
    IF statements = <<>> THEN env
    ELSE AnalyzeEach(Tail(statements), _analyze_statement(Head(statements), env))

analyze_program(program) == AnalyzeEach(program, <<TypeEnvironment>>)

\* ---- TypeChecker (types/checker.py) ----
TypeError(where, name) == [where |-> where, name |-> name]

CheckerIsNumeric(type_) == type_ = integer_type \/ type_ = float_type

RECURSIVE _is_type_compatible(_, _)
_is_type_compatible(source_type, target_type) ==
    IF source_type = target_type THEN TRUE
    ELSE IF isinstance(source_type, "AnyType") \/ isinstance(target_type, "AnyType") THEN TRUE
    ELSE IF /\ CheckerIsNumeric(source_type) /\ CheckerIsNumeric(target_type)
            /\ source_type = integer_type /\ target_type = float_type THEN TRUE
    ELSE IF isinstance(source_type, "ListType") /\ isinstance(target_type, "ListType")
    THEN _is_type_compatible(source_type.args[1], target_type.args[1])
    ELSE IF isinstance(source_type, "DictionaryType") /\ isinstance(target_type, "DictionaryType")
    THEN /\ _is_type_compatible(source_type.args[1], target_type.args[1])
         /\ _is_type_compatible(source_type.args[2], target_type.args[2])
    ELSE IF isinstance(target_type, "UnionType")
    THEN \E i \in DOMAIN target_type.args : _is_type_compatible(source_type, target_type.args[i])
    ELSE IF isinstance(source_type, "UnionType")
    THEN \A i \in DOMAIN source_type.args : _is_type_compatible(source_type.args[i], target_type)
    ELSE FALSE

\* the checker's state while it walks a program
Checked(env, errs) == [env |-> env, errors |-> errs]

RECURSIVE _check_statement(_, _, _)
RECURSIVE CheckEach(_, _, _)
_check_statement(stmt, env, errs) ==
    CASE stmt.k = "Declaration" ->
            Checked(set_variable_type(env, stmt.name, infer_type(stmt.value, env)), errs)
      [] stmt.k = "TypedDeclaration" ->
            LET value_type == infer_type(stmt.value, env)
            IN  Checked(set_variable_type(env, stmt.name, stmt.type_annotation),
                        IF ~ _is_type_compatible(value_type, stmt.type_annotation)
                        THEN Append(errs, TypeError("declaration", stmt.name))
                        ELSE errs)
      [] stmt.k = "Assignment" ->
            LET var_type == get_variable_type(env, stmt.name)
            IN  IF var_type # NoType /\ ~ _is_type_compatible(infer_type(stmt.value, env), var_type)
                THEN Checked(env, Append(errs, TypeError("assignment", stmt.name)))
                ELSE Checked(env, errs)
      [] stmt.k = "ProcessDefinition" ->
            LET declared == set_function_type(env, stmt.name,
                                FunctionType(AnyTypes(Len(stmt.parameters)), any_type))
                func_env == BindParameters(NestedScope(declared), stmt.parameters, any_type)
                body == CheckEach(stmt.body, func_env, errs)
            IN  Checked(Leave(body.env), body.errors)
      [] stmt.k = "ForEachStatement" ->
            LET iterable_type == infer_type(stmt.iterable, env)
                elem_type == IF isinstance(iterable_type, "ListType")
                             THEN iterable_type.args[1] ELSE any_type
                loop_env == set_variable_type(NestedScope(env), stmt.variable, elem_type)
                body == CheckEach(stmt.body, loop_env, errs)
            IN  IF ~isinstance(iterable_type, "ListType") /\ ~isinstance(iterable_type, "AnyType")
                THEN \* self.errors.append(...); return
                     Checked(env, Append(errs, TypeError("for-each", stmt.variable)))
                ELSE Checked(Leave(body.env), body.errors)
      [] OTHER -> Checked(env, errs)

CheckEach(statements, env, errs) ==
    IF statements = <<>> THEN Checked(env, errs)
    ELSE LET c == _check_statement(Head(statements), env, errs)
         IN  CheckEach(Tail(statements), c.env, c.errors)

\* ---- the programs and expressions fed to the type layer ----
MaxTyped == 2

\* Process called "add" that takes a and b: Return a plus b
AddProcess ==
    ProcessDefinition("add", <<"a", "b">>,
        <<ReturnStatement(BinaryOperation(VariableReference("a"), "PLUS", VariableReference("b")))>>)

\* add with a as 2 and b as 3
AddCall == FunctionCall("add", << <<"a", NumberLiteral("int")>>, <<"b", NumberLiteral("int")>> >>)

\* Let sum be add with a as 2 and b as 3
SumDeclaration == Declaration("sum", AddCall)

\* each statement is one parsed node; its annotation is an object of its own
TypedStatements ==
    { TypedDeclaration("x", PrimitiveType("Integer", "Let x (Integer) be 10"), NumberLiteral("int")),
      TypedDeclaration("y", PrimitiveType("Float", "Let y (Float) be 3.14"), NumberLiteral("float")),
      TypedDeclaration("z", PrimitiveType("String", "Let z (String) be hello"), StringLiteral),
      TypedDeclaration("z", PrimitiveType("Integer", "Let z (Integer) be hello"), StringLiteral),
      Declaration("x", NumberLiteral("int")),
      Declaration("y", BinaryOperation(VariableReference("x"), "PLUS", NumberLiteral("int"))),
      Assignment("x", StringLiteral),
      AddProcess,
      SumDeclaration }

IsInjective(s) == \A i, j \in DOMAIN s : s[i] = s[j] => i = j

\* Let z (Integer) be "hello" and Set x to "hello", as statements of a loop body
LoopBody ==
    << TypedDeclaration("z", PrimitiveType("Integer", "Let z (Integer) be hello"), StringLiteral),
       Assignment("x", StringLiteral) >>

\* For each a in 5: ..., in x: ..., in list containing 1, 2: ..., in items: ...
Loops ==
    { ForEachStatement("a", iterable, LoopBody) :
        iterable \in { NumberLiteral("int"), VariableReference("x"), VariableReference("b"),
                       ListExpression(<<NumberLiteral("int"), NumberLiteral("int")>>) } }

\* Let x be 10, then a loop, then Let z (Integer) be "hello"
LoopPrograms ==
    { <<Declaration("x", NumberLiteral("int")), loop>> : loop \in Loops }
    \cup { <<Declaration("x", NumberLiteral("int")), loop, LoopBody[1]>> : loop \in Loops }

TypedPrograms ==
    UNION { { p \in [1..n -> TypedStatements] : IsInjective(p) } : n \in 0..MaxTyped }
    \cup LoopPrograms

Operands ==
    { NumberLiteral("int"), NumberLiteral("float"), StringLiteral, BooleanLiteral,
      VariableReference("y"), VariableReference("z") }

Operators == Arithmetic \cup Comparison \cup Logical

MaxElements == 3

\* 1, 2.5, "three"
Elements == { NumberLiteral("int"), NumberLiteral("float"), StringLiteral }

\* list containing e1, e2, ...
ListLiterals == UNION { { ListExpression(e) : e \in [1..n -> Elements] } : n \in 0..MaxElements }

\* "name" as 1, "height" as 1.5, 1 as "one"
Entries ==
    { DictionaryEntry(StringLiteral, NumberLiteral("int")),
      DictionaryEntry(StringLiteral, NumberLiteral("float")),
      DictionaryEntry(NumberLiteral("int"), StringLiteral) }

\* dictionary with e1, e2, ...
DictionaryLiterals ==
    UNION { { DictionaryExpression(e) : e \in [1..n -> Entries] } : n \in 0..(MaxElements - 1) }

Expressions ==
    Operands \cup { AddCall, VariableReference("sum") }
    \cup { BinaryOperation(l, o, r) : l \in Operands, o \in Operators, r \in Operands }
    \cup ListLiterals \cup DictionaryLiterals

\* Integer | String and String | Integer as unions of the inferer's own type
\* objects; obj names the place the union object was built for
IntegerOrString(obj) == UnionType(<<integer_type, string_type>>, obj)
StringOrInteger(obj) == UnionType(<<string_type, integer_type>>, obj)

ComparedTypes ==
    { integer_type, float_type, string_type, boolean_type, any_type,
      IntegerOrString("Let a (Integer | String) be 1"),
      IntegerOrString("Let c (Integer | String) be a"),
      StringOrInteger("Let b (String | Integer) be a"),
      UnionType(<<integer_type, float_type>>, "Let n (Integer | Float) be 1"),
      UnionType(<<float_type, string_type, boolean_type>>, "Let m (Float | String | Boolean) be 1.5"),
      ListType(integer_type, "Let l (List[Integer]) be list"),
      ListType(float_type, "Let f (List[Float]) be list") }

InitTypes ==
    types = [ program |-> <<>>, env |-> <<TypeEnvironment>>, errors |-> <<>>, valid |-> TRUE,
              checks |-> 0, node |-> None, inferred |-> NoType, compared |-> None ]

\* TypeChecker.check_program
check_program(program) ==
    /\ types.node = None
    /\ types.compared = None
    /\ LET env == analyze_program(program)
           c == CheckEach(program, env, <<>>)
       IN  types' = [ program |-> program, env |-> c.env, errors |-> c.errors,
                      valid |-> (Len(c.errors) = 0),
                      node |-> None, inferred |-> NoType, compared |-> None ]
    /\ UNCHANGED outsideTypes

\* TypeInferer.infer_type on an expression, in the environment the last check left
InferType(node) ==
    /\ types.node = None
    /\ types.compared = None
    /\ types' = [types EXCEPT !.node = node, !.inferred = infer_type(node, types.env)]
    /\ UNCHANGED outsideTypes

\* TypeChecker._is_type_compatible on two types, by a checker that has checked nothing
IsTypeCompatible(source_type, target_type) ==
    /\ types.node = None
    /\ types.compared = None
    /\ types.program = <<>>
    /\ types' = [types EXCEPT !.compared =
                    [ source_type |-> source_type, target_type |-> target_type,
                      compatible |-> _is_type_compatible(source_type, target_type) ]]
    /\ UNCHANGED outsideTypes

NextTypes ==
    \/ \E program \in TypedPrograms : check_program(program)
    \/ \E node \in Expressions : InferType(node)
    \/ \E source_type \in ComparedTypes, target_type \in ComparedTypes :
          IsTypeCompatible(source_type, target_type)

----------------------------------------------------------------------------
(* Code generators: PyCodeGenerator (src/runa/generator.py, extended by     *)
(* patterns/generator.py) and JsCodeGenerator (targets/js_generator.py),    *)
(* called by Transpiler.transpile.  Emitted text is a string; a literal     *)
(* reaches the generator through the lexer rule that reads it and           *)
(* RunaParser.p_literal.                                                    *)

\* ---- Python objects carried by tokens and literal nodes ----
\* py is the class of the object; n, s and b hold an int (or the whole part of
\* a float), the characters of a str (or the fraction digits of a float), a bool
PyObject(py, n, s, b) == [py |-> py, n |-> n, s |-> s, b |-> b]

\* the object a token of the lexer carries as t.value
PyTokenValue(tok) ==
    CASE tok.type = "STRING" -> PyObject("str", 0, tok.value, FALSE)
      [] tok.type = "NUMBER" ->
            PyObject(IF tok.value.fraction = <<>> THEN "int" ELSE "float",
                     tok.value.whole, tok.value.fraction, FALSE)
      [] tok.type = "BOOLEAN" -> PyObject("bool", 0, <<>>, tok.value)
      [] OTHER -> PyObject("str", 0, tok.value, FALSE)

\* isinstance(value, cls): bool is a subclass of int
PyIsInstance(value, cls) == value.py = cls \/ (value.py = "bool" /\ cls = "int")

RECURSIVE Text(_)
\* the string made of a sequence of characters
Text(chars) == IF chars = <<>> THEN "" ELSE Head(chars) \o Text(Tail(chars))

RECURSIVE ShortestFraction(_)
\* the fraction digits repr() prints: no trailing zeros, at least one digit
ShortestFraction(digits) ==
    IF Len(digits) > 1 /\ digits[Len(digits)] = "0"
    THEN ShortestFraction(SubSeq(digits, 1, Len(digits) - 1))
    ELSE digits

\* Python's str(value)
str(value) ==
    CASE value.py = "int" -> ToString(value.n)
      [] value.py = "float" -> ToString(value.n) \o "." \o Text(ShortestFraction(value.s))
      [] value.py = "bool" -> IF value.b THEN "True" ELSE "False"
      [] OTHER -> Text(value.s)

\* ---- RunaParser.p_literal: literal : STRING | NUMBER | BOOLEAN ----
LiteralNode(k, value) == [k |-> k, py |-> value.py, value |-> value]

p_literal(tok) ==
    LET p1 == PyTokenValue(tok)
    IN  IF PyIsInstance(p1, "str") THEN LiteralNode("StringLiteral", p1)
        ELSE IF PyIsInstance(p1, "int") \/ PyIsInstance(p1, "float")
        THEN LiteralNode("NumberLiteral", p1)
        ELSE IF PyIsInstance(p1, "bool") THEN LiteralNode("BooleanLiteral", p1)
        ELSE None

\* the node of the literal written as the characters text
ParseLiteral(text) == p_literal(LexToken(text, 1).tok)

\* Match value: When _: body, the node object living at address id
MatchExpression(value, cases, id) ==
    [k |-> "MatchExpression", value |-> value, cases |-> cases, id |-> id]
MatchCase(pattern, body) == [pattern |-> pattern, body |-> body]

\* ---- text helpers ----
RECURSIVE Join(_, _)
\* sep.join(parts)
Join(parts, sep) ==
    IF parts = <<>> THEN ""
    ELSE IF Len(parts) = 1 THEN parts[1]
    ELSE parts[1] \o sep \o Join(Tail(parts), sep)

RECURSIVE Replace(_, _, _)
\* str.replace on a sequence of characters: every character c becomes the characters by
Replace(chars, c, by) ==
    IF chars = <<>> THEN <<>>
    ELSE (IF Head(chars) = c THEN by ELSE <<Head(chars)>>) \o Replace(Tail(chars), c, by)

Quoted(value) == "\"" \o Text(Replace(value.s, "\"", <<"\\", "\"">>)) \o "\""

\* f"_match_value_{id(node) % 10000:04d}", id being the four digits of the address
temp_var(node) == "_match_value_" \o node.id

\* ---- PyCodeGenerator ----
PyOperator(operator) ==
    CASE operator = "PLUS" -> "+" [] operator = "MINUS" -> "-"
      [] operator = "MULTIPLIED" -> "*" [] operator = "DIVIDED" -> "/"
      [] operator = "MODULO" -> "%" [] operator = "GREATER" -> ">"
      [] operator = "LESS" -> "<" [] operator = "EQUAL" -> "=="
      [] operator = "NOT_EQUAL" -> "!=" [] operator = "AND" -> "and"
      [] operator = "OR" -> "or" [] OTHER -> operator

RECURSIVE PyGenerate(_)
\* PyCodeGenerator.generate(node) for a statement or expression
PyGenerate(node) ==
    CASE node.k = "Declaration" -> node.name \o " = " \o PyGenerate(node.value)
      [] node.k = "StringLiteral" -> Quoted(node.value)
      [] node.k = "NumberLiteral" -> str(node.value)
      [] node.k = "BooleanLiteral" -> str(node.value)
      [] node.k = "VariableReference" -> node.name
      [] node.k = "BinaryOperation" ->
            "(" \o PyGenerate(node.left) \o " " \o PyOperator(node.operator) \o " "
                \o PyGenerate(node.right) \o ")"
      [] node.k = "FunctionCall" ->
            node.name \o "("
            \o Join([i \in DOMAIN node.named_arguments |->
                        node.named_arguments[i][1] \o "=" \o PyGenerate(node.named_arguments[i][2])],
                    ", ")
            \o ")"
      [] node.k = "IfStatement" ->
            \* each statement's text, of one line or more, behind four spaces
            "if " \o PyGenerate(node.condition) \o ":" \o "\n"
            \o Join([j \in DOMAIN node.then_block |->
                        "    " \o PyGenerate(node.then_block[j])], "\n")
            \o (IF node.else_block = <<>> THEN ""
                ELSE "\nelse:" \o "\n"
                     \o Join([j \in DOMAIN node.else_block |->
                                 "    " \o PyGenerate(node.else_block[j])], "\n"))
      [] node.k = "ForEachStatement" ->
            "for " \o node.variable \o " in " \o PyGenerate(node.iterable) \o ":" \o "\n"
            \o Join([j \in DOMAIN node.body |-> "    " \o PyGenerate(node.body[j])], "\n")
      [] node.k = "MatchExpression" ->
            \* cases with a catch-all pattern: if True / elif True, no else
            Join(<<temp_var(node) \o " = " \o PyGenerate(node.value)>>
                 \o [i \in DOMAIN node.cases |->
                        (IF i = 1 THEN "if True:" ELSE "elif True:")
                        \o Join([j \in DOMAIN node.cases[i].body |->
                                    "\n    " \o PyGenerate(node.cases[i].body[j])], "")],
                 "\n")

Header == <<"# Generated Python code from Runa", "from runa.runtime import *", "">>

\* the lines visit_Program appends to self.output
PyProgramLines(program) == Header \o [i \in DOMAIN program |-> PyGenerate(program[i])]

\* ---- JsCodeGenerator ----
JsOperator(operator) ==
    CASE operator = "PLUS" -> "+" [] operator = "MINUS" -> "-"
      [] operator = "MULTIPLIED" -> "*" [] operator = "DIVIDED" -> "/"
      [] operator = "MODULO" -> "%" [] operator = "POWER" -> "**"
      [] operator = "EQUAL" -> "===" [] operator = "NOT_EQUAL" -> "!=="
      [] operator = "GREATER" -> ">" [] operator = "LESS" -> "<"
      [] operator = "GREATER_EQUAL" -> ">=" [] operator = "LESS_EQUAL" -> "<="
      [] operator = "AND" -> "&&" [] operator = "OR" -> "||"
      [] OTHER -> "/* Unknown operator */"

RECURSIVE JsRaises(_)
\* visit_FunctionCall reads node.args, an attribute FunctionCall does not have
JsRaises(node) ==
    CASE node.k = "Declaration" -> JsRaises(node.value)
      [] node.k = "BinaryOperation" -> JsRaises(node.left) \/ JsRaises(node.right)
      [] node.k = "FunctionCall" -> node.name # "Display"
      [] node.k = "IfStatement" ->
            \/ JsRaises(node.condition)
            \/ \E j \in DOMAIN node.then_block : JsRaises(node.then_block[j])
            \/ \E j \in DOMAIN node.else_block : JsRaises(node.else_block[j])
      [] node.k = "ForEachStatement" ->
            \/ JsRaises(node.iterable)
            \/ \E j \in DOMAIN node.body : JsRaises(node.body[j])
      [] node.k = "MatchExpression" ->
            \/ JsRaises(node.value)
            \/ \E i \in DOMAIN node.cases :
                  \E j \in DOMAIN node.cases[i].body : JsRaises(node.cases[i].body[j])
      [] OTHER -> FALSE

RECURSIVE _indent(_)
\* self.indent_str * self.current_indent
_indent(current_indent) ==
    IF current_indent = 0 THEN "" ELSE "    " \o _indent(current_indent - 1)

RECURSIVE JsGenerate(_, _)
\* JsCodeGenerator.generate(node) with self.current_indent, where nothing raises
JsGenerate(node, current_indent) ==
    CASE node.k = "Declaration" ->
            _indent(current_indent) \o "let " \o node.name \o " = "
                \o JsGenerate(node.value, current_indent) \o ";"
      [] node.k = "StringLiteral" -> Quoted(node.value)
      [] node.k = "NumberLiteral" -> str(node.value)
      [] node.k = "BooleanLiteral" -> IF node.value.b THEN "true" ELSE "false"
      [] node.k = "VariableReference" -> node.name
      [] node.k = "BinaryOperation" ->
            "(" \o JsGenerate(node.left, current_indent) \o " " \o JsOperator(node.operator) \o " "
                \o JsGenerate(node.right, current_indent) \o ")"
      [] node.k = "IfStatement" ->
            Join(<<_indent(current_indent) \o "if ("
                        \o JsGenerate(node.condition, current_indent) \o ") {">>
                 \o [j \in DOMAIN node.then_block |->
                        JsGenerate(node.then_block[j], current_indent + 1)]
                 \o <<_indent(current_indent) \o "}">>
                 \o (IF node.else_block = <<>> THEN <<>>
                     ELSE <<_indent(current_indent) \o "else {">>
                          \o [j \in DOMAIN node.else_block |->
                                 JsGenerate(node.else_block[j], current_indent + 1)]
                          \o <<_indent(current_indent) \o "}">>),
                 "\n")
      [] node.k = "ForEachStatement" ->
            Join(<<_indent(current_indent) \o "for (let " \o node.variable \o " of "
                        \o JsGenerate(node.iterable, current_indent) \o ") {">>
                 \o [j \in DOMAIN node.body |-> JsGenerate(node.body[j], current_indent + 1)]
                 \o <<_indent(current_indent) \o "}">>,
                 "\n")
      [] node.k = "MatchExpression" ->
            Join(<<_indent(current_indent) \o "const " \o temp_var(node) \o " = "
                        \o JsGenerate(node.value, current_indent) \o ";">>
                 \o [i \in DOMAIN node.cases |->
                        _indent(current_indent)
                        \o (IF i = 1 THEN "if (true) {" ELSE "else if (true) {")
                        \o Join([j \in DOMAIN node.cases[i].body |->
                                    "\n" \o JsGenerate(node.cases[i].body[j], current_indent + 1)], "")
                        \o "\n" \o _indent(current_indent) \o "}"]
                 \o <<_indent(current_indent) \o "else {",
                      _indent(current_indent) \o "    // No pattern matched",
                      _indent(current_indent) \o "}">>,
                 "\n")

\* first line of the text _generate_runtime returns
JsRuntime == "// Runa Runtime Library for JavaScript"

JsStatements(program) == [i \in DOMAIN program |-> JsGenerate(program[i], 0)]

\* ---- the programs fed to the generators ----
MaxProgram == 2

\* 10, 2.50, True, "hi"
LiteralTexts ==
    { <<"1", "0">>, <<"2", ".", "5", "0">>, <<"T", "r", "u", "e">>, <<"\"", "h", "i", "\"">> }

\* Let x be <literal>
LiteralDeclaration(text) == Declaration("x", ParseLiteral(text))

\* Let sum be add with a as 5 and b as 10
NamedCallDeclaration ==
    Declaration("sum", FunctionCall("add", << <<"a", ParseLiteral(<<"5">>)>>,
                                              <<"b", ParseLiteral(<<"1", "0">>)>> >>))

\* id(node) % 10000 of a match node, as printed with :04d
Addresses == {"0016", "4096"}

\* Match x: When _: Let y be 10
MatchStatement(id) ==
    MatchExpression(VariableReference("x"),
                    <<MatchCase(WildcardPattern, <<Declaration("y", ParseLiteral(<<"1", "0">>))>>)>>,
                    id)

GeneratedStatements ==
    { LiteralDeclaration(text) : text \in LiteralTexts }
    \cup { NamedCallDeclaration }
    \cup { MatchStatement(id) : id \in Addresses }

\* x is greater than 1
Condition == BinaryOperation(VariableReference("x"), "GREATER", ParseLiteral(<<"1">>))

\* Let y be 10
InnerDeclaration == Declaration("y", ParseLiteral(<<"1", "0">>))

\* If x is greater than 1: Let y be 10 Otherwise: Let y be 10
FlatIf == IfStatement(Condition, <<InnerDeclaration>>, <<InnerDeclaration>>)

\* For each x in items: Let y be 10
FlatForEach == ForEachStatement("x", VariableReference("items"), <<InnerDeclaration>>)

\* statements with a block in the body of another block
NestedStatements ==
    { IfStatement(Condition, <<IfStatement(Condition, <<InnerDeclaration>>, <<>>)>>, <<>>),
      IfStatement(Condition, <<InnerDeclaration>>, <<FlatForEach>>),
      ForEachStatement("x", VariableReference("items"), <<FlatIf, InnerDeclaration>>),
      IfStatement(Condition, <<MatchStatement("0016")>>, <<>>),
      MatchExpression(VariableReference("x"), <<MatchCase(WildcardPattern, <<FlatIf>>)>>, "0016") }

BlockStatements == {FlatIf, FlatForEach} \cup NestedStatements

\* programs of simple statements, and the programs of one block statement
GeneratedPrograms ==
    UNION { [1..n -> GeneratedStatements] : n \in 1..MaxProgram }
    \cup { <<stmt>> : stmt \in BlockStatements }

InitGenerator ==
    gen = [ target |-> "none", use |-> "none", output |-> <<>>, program |-> <<>>,
            parts |-> <<>>, code |-> "None", raised |-> FALSE ]

\* Transpiler.__init__: self.generator = get_generator(self.target)
get_generator(target) ==
    /\ gen.use = "none"
    /\ gen' = [gen EXCEPT !.target = target, !.use = "new"]
    /\ UNCHANGED outsideGenerator

\* self.generator.generate(ast) inside the try of Transpiler.transpile, for a
\* generator whose self.output is output: the text returned, None when it raises
Emitted(target, output, program) ==
    IF target = "python"
    THEN [ output |-> output \o PyProgramLines(program),
           parts |-> output \o PyProgramLines(program),
           code |-> Join(output \o PyProgramLines(program), "\n"),
           raised |-> FALSE ]
    ELSE IF \E i \in DOMAIN program : JsRaises(program[i])
    THEN [ output |-> output, parts |-> <<>>, code |-> "None", raised |-> TRUE ]
    ELSE [ output |-> output,
           parts |-> JsStatements(program),
           code |-> JsRuntime \o "\n\n" \o Join(JsStatements(program), "\n"),
           raised |-> FALSE ]

\* the generation step of Transpiler.transpile, on a generator used at most once before
generate(program) ==
    /\ gen.use \in {"new", "used"}
    /\ LET e == Emitted(gen.target, gen.output, program)
       IN  gen' = [ target |-> gen.target,
                    use |-> IF gen.use = "new" THEN "used" ELSE "used again",
                    output |-> e.output, program |-> program,
                    parts |-> e.parts, code |-> e.code, raised |-> e.raised ]
    /\ UNCHANGED outsideGenerator

NextGenerator ==
    \/ \E target \in {"python", "javascript"} : get_generator(target)
    \/ \E program \in GeneratedPrograms : generate(program)

----------------------------------------------------------------------------
----------------------------------------------------------------------------
(* SemanticAnalyzer.analyze on whole ASTs of the extended language: the     *)
(* Visitor class as the integrate_* functions leave it, Node.accept's       *)
(* dispatch by class name, and the visit methods it reaches.                 *)

Program(statements) == [k |-> "Program", statements |-> statements]
DisplayStatement(value) == [k |-> "DisplayStatement", value |-> value, message |-> None]
TypeAlias(name, target_type) == [k |-> "TypeAlias", name |-> name, target_type |-> target_type]
TypedParameter(name, type_annotation) == [name |-> name, type_annotation |-> type_annotation]
TypedProcessDefinition(name, parameters, return_type, body) ==
    [k |-> "TypedProcessDefinition", name |-> name, parameters |-> parameters,
     return_type |-> return_type, body |-> body]
LambdaExpression(parameters, body) ==
    [k |-> "LambdaExpression", parameters |-> parameters, body |-> body]

\* the language features an integrate_* function exists for
Features == {"patterns", "functional", "types"}

\* the visit_<Class> methods SemanticAnalyzer defines itself
AnalyzerMethods ==
    {"Program", "Declaration", "ReturnStatement", "DisplayStatement",
     "StringLiteral", "NumberLiteral", "BooleanLiteral",
     "VariableReference", "BinaryOperation", "FunctionCall"}

\* the visit_<Class> methods extend_visitor of a feature adds to class Visitor;
\* integrate_type_system extends the parser only
extend_visitor(feature) ==
    CASE feature = "patterns" -> {"MatchExpression", "MatchCase"}
      [] feature = "functional" -> {"LambdaExpression"}
      [] feature = "types" -> {}

\* the visit methods getattr finds on a SemanticAnalyzer
VisitMethods(integrated) ==
    AnalyzerMethods \cup UNION {extend_visitor(feature) : feature \in integrated}

\* a SemanticAnalyzer as __init__ leaves it; raised names the exception that
\* is propagating out of the visit, if any
NewAnalyzer == [scopes |-> <<{}>>, errors |-> <<>>, raised |-> "none"]

\* SemanticAnalyzer.error
error(a, kind, name) == [a EXCEPT !.errors = Append(@, Error(kind, name, 0))]

\* Visitor.visit_default
visit_default(a) == [a EXCEPT !.raised = "NotImplementedError"]

RECURSIVE accept(_, _, _)
RECURSIVE accept_each(_, _, _)
RECURSIVE visit_pattern(_, _, _)
RECURSIVE visit_patterns(_, _, _)
RECURSIVE Visitor_visit_MatchCases(_, _, _)

\* for stmt in nodes: stmt.accept(self)
accept_each(nodes, methods, a) ==
    IF nodes = <<>> \/ a.raised # "none" THEN a
    ELSE accept_each(Tail(nodes), methods, accept(Head(nodes), methods, a))

\* SemanticAnalyzer.visit_Declaration
SemanticAnalyzer_visit_Declaration(node, methods, a) ==
    LET checked == IF is_defined_in_current_scope(a.scopes, node.name)
                   THEN error(a, "already defined", node.name) ELSE a
        valued == accept(node.value, methods, checked)
    IN  IF valued.raised # "none" THEN valued
        ELSE [valued EXCEPT !.scopes = define(@, node.name)]

\* SemanticAnalyzer.visit_VariableReference
SemanticAnalyzer_visit_VariableReference(node, a) ==
    IF resolve(a.scopes, node.name) THEN a
    ELSE error(a, "undefined variable", node.name)

\* SemanticAnalyzer.visit_BinaryOperation
SemanticAnalyzer_visit_BinaryOperation(node, methods, a) ==
    accept(node.right, methods, accept(node.left, methods, a))

\* SemanticAnalyzer.visit_DisplayStatement
SemanticAnalyzer_visit_DisplayStatement(node, methods, a) ==
    LET valued == accept(node.value, methods, a)
    IN  IF node.message.k = "none" THEN valued ELSE accept(node.message, methods, valued)

\* SemanticAnalyzer.visit_ReturnStatement
SemanticAnalyzer_visit_ReturnStatement(node, methods, a) ==
    IF node.value.k = "none" THEN a ELSE accept(node.value, methods, a)

RECURSIVE accept_named(_, _, _)
\* for arg in node.named_arguments.values(): arg.accept(self)
accept_named(named_arguments, methods, a) ==
    IF named_arguments = <<>> \/ a.raised # "none" THEN a
    ELSE accept_named(Tail(named_arguments), methods,
                      accept(Head(named_arguments)[2], methods, a))

\* SemanticAnalyzer.visit_FunctionCall
SemanticAnalyzer_visit_FunctionCall(node, methods, a) ==
    accept_named(node.named_arguments, methods,
                 IF ~resolve(a.scopes, node.name) /\ node.name \notin BuiltinFunctions
                 THEN error(a, "undefined function", node.name) ELSE a)

\* visit_pattern of patterns/visitors.py
visit_pattern(pattern, methods, a) ==
    IF a.raised # "none" THEN a
    ELSE CASE pattern.p \in {"wildcard", "variable", "rest"} -> a
           [] pattern.p = "literal" -> accept(pattern.value, methods, a)
           [] pattern.p = "list" -> visit_patterns(pattern.elements, methods, a)

visit_patterns(elements, methods, a) ==
    IF elements = <<>> THEN a
    ELSE visit_patterns(Tail(elements), methods, visit_pattern(Head(elements), methods, a))

\* visit_MatchCase of patterns/visitors.py, reached by case.accept(self)
Visitor_visit_MatchCase(node, methods, a) ==
    IF "MatchCase" \notin methods THEN visit_default(a)
    ELSE accept_each(node.body, methods, visit_pattern(node.pattern, methods, a))

\* for case in node.cases: case.accept(self)
Visitor_visit_MatchCases(cases, methods, a) ==
    IF cases = <<>> \/ a.raised # "none" THEN a
    ELSE Visitor_visit_MatchCases(Tail(cases), methods,
                                  Visitor_visit_MatchCase(Head(cases), methods, a))

\* visit_MatchExpression of patterns/visitors.py
Visitor_visit_MatchExpression(node, methods, a) ==
    Visitor_visit_MatchCases(node.cases, methods, accept(node.value, methods, a))

\* visit_LambdaExpression of functional/visitors.py
Visitor_visit_LambdaExpression(node, methods, a) == accept(node.body, methods, a)

\* Node.accept: getattr(visitor, "visit_" + class name, visitor.visit_default)(self)
accept(node, methods, a) ==
    IF a.raised # "none" THEN a
    ELSE IF node.k \notin methods THEN visit_default(a)
    ELSE CASE node.k = "Program" -> accept_each(node.statements, methods, a)
           [] node.k = "Declaration" -> SemanticAnalyzer_visit_Declaration(node, methods, a)
           [] node.k = "ReturnStatement" -> SemanticAnalyzer_visit_ReturnStatement(node, methods, a)
           [] node.k = "DisplayStatement" -> SemanticAnalyzer_visit_DisplayStatement(node, methods, a)
           [] node.k \in {"StringLiteral", "NumberLiteral", "BooleanLiteral"} -> a
           [] node.k = "VariableReference" -> SemanticAnalyzer_visit_VariableReference(node, a)
           [] node.k = "BinaryOperation" -> SemanticAnalyzer_visit_BinaryOperation(node, methods, a)
           [] node.k = "FunctionCall" -> SemanticAnalyzer_visit_FunctionCall(node, methods, a)
           [] node.k = "MatchExpression" -> Visitor_visit_MatchExpression(node, methods, a)
           [] node.k = "LambdaExpression" -> Visitor_visit_LambdaExpression(node, methods, a)

\* ---- inputs ----
MaxAnalysed == 2

IntegerAnnotation(text) == PrimitiveType("Integer", text)

\* Match 1: When pattern: Display shown
MatchDisplaying(pattern, shown) ==
    MatchExpression(NumberLiteral("int"), <<MatchCase(pattern, <<DisplayStatement(shown)>>)>>, "0016")

\* Process called "add" that takes a (Integer) and b (Integer) returns (Integer)
TypedAddProcess ==
    TypedProcessDefinition("add",
        <<TypedParameter("a", IntegerAnnotation("a (Integer)")),
          TypedParameter("b", IntegerAnnotation("b (Integer)"))>>,
        IntegerAnnotation("returns (Integer)"),
        <<ReturnStatement(BinaryOperation(VariableReference("a"), "PLUS", VariableReference("b")))>>)

AnalysedStatements ==
    { Declaration("v", NumberLiteral("int")),
      DisplayStatement(VariableReference("v")),
      TypeAlias("UserId", IntegerAnnotation("Type UserId is Integer")),
      TypedDeclaration("x", IntegerAnnotation("Let x (Integer) be 10"), NumberLiteral("int")),
      TypedAddProcess,
      MatchDisplaying(WildcardPattern, StringLiteral),
      MatchDisplaying(LiteralPattern(NumberLiteral("int")), StringLiteral),
      MatchDisplaying(VariablePattern("n"), VariableReference("n")),
      MatchDisplaying(ListPattern(<<VariablePattern("first"), RestPattern("rest")>>),
                      VariableReference("rest")),
      Declaration("one", LambdaExpression(<<>>, NumberLiteral("int"))),
      Declaration("sum",
          LambdaExpression(<<"a", "b">>,
              BinaryOperation(VariableReference("a"), "PLUS", VariableReference("b")))) }

AnalysedPrograms ==
    { p \in UNION {[1..n -> AnalysedStatements] : n \in 0..MaxAnalysed} : IsInjective(p) }

\* integrated: the features whose integrate_* function ran; use: whether the
\* analyzer exists and has analysed; program, features: the statements it
\* analysed and the features integrated at that time (no code reads them);
\* returned, raised: how that analyze call ended
InitAnalysis ==
    analysis = [ integrated |-> {}, use |-> "none", program |-> <<>>, features |-> {},
                 scopes |-> <<{}>>, errors |-> <<>>, returned |-> "none", raised |-> "none" ]

\* integrate_pattern_matching, integrate_functional_programming, integrate_type_system:
\* the methods are set on class Visitor, so existing analyzers see them too
integrate(feature) ==
    /\ feature \notin analysis.integrated
    /\ analysis' = [analysis EXCEPT !.integrated = @ \cup {feature}]
    /\ UNCHANGED outsideAnalysis

\* SemanticAnalyzer()
SemanticAnalyzer ==
    /\ analysis.use # "new"
    /\ analysis' = [ integrated |-> analysis.integrated, use |-> "new", program |-> <<>>,
                     features |-> {},
                     scopes |-> NewAnalyzer.scopes, errors |-> NewAnalyzer.errors,
                     returned |-> "none", raised |-> "none" ]
    /\ UNCHANGED outsideAnalysis

\* SemanticAnalyzer.analyze(Program(statements)) on a new analyzer
AnalyzeProgram(statements) ==
    /\ analysis.use = "new"
    /\ LET self == [scopes |-> analysis.scopes, errors |-> analysis.errors, raised |-> "none"]
           a == accept(Program(statements), VisitMethods(analysis.integrated), self)
       IN  analysis' = [ integrated |-> analysis.integrated, use |-> "used",
                         program |-> statements, features |-> analysis.integrated,
                         scopes |-> a.scopes, errors |-> a.errors,
                         returned |-> IF a.raised # "none" THEN "none"
                                      ELSE IF Len(a.errors) = 0 THEN "True" ELSE "False",
                         raised |-> a.raised ]
    /\ UNCHANGED outsideAnalysis

NextAnalysis ==
    \/ \E feature \in Features : integrate(feature)
    \/ SemanticAnalyzer
    \/ \E statements \in AnalysedPrograms : AnalyzeProgram(statements)

----------------------------------------------------------------------------
(* Transpiler(target, advanced) and one transpile call on it: the standard  *)
(* pipeline and the advanced branch (transpiler.py, advanced.py).           *)

MaxSource == 2

SUPPORTED_TARGETS == {"python", "javascript", "js"}

\* the generator class of a supported target
GeneratorClass(target) == IF target = "python" THEN "python" ELSE "javascript"

\* Let y be x
ReferenceDeclaration == Declaration("y", VariableReference("x"))

TranspiledStatements ==
    { LiteralDeclaration(text) : text \in LiteralTexts }
    \cup { NamedCallDeclaration, ReferenceDeclaration }

\* what a parser returns for a source: the statements of its AST, or None
Unparsable == <<None>>
TranspiledSources ==
    UNION { [1..n -> TranspiledStatements] : n \in 1..MaxSource } \cup {Unparsable}

\* a returned tuple (code, valid, errors, warnings), or the exception raised
Returned4(code, valid, errs) ==
    [outcome |-> "returned", raised |-> "none", code |-> code, valid |-> valid, errors |-> errs]
RaisedOut(exception) ==
    [outcome |-> "raised", raised |-> exception, code |-> "None", valid |-> FALSE, errors |-> <<>>]

\* transpile_advanced(source): parse, a new analyzer, a new Python generator,
\* nothing caught
transpile_advanced(source) ==
    IF source = Unparsable THEN Returned4("None", FALSE, ParseFailedMessage)
    ELSE LET a == accept(Program(source), VisitMethods(Features), NewAnalyzer)
             e == Emitted("python", <<>>, source)
         IN  IF a.raised # "none" THEN RaisedOut(a.raised)
             ELSE IF Len(a.errors) # 0 THEN Returned4("None", FALSE, a.errors)
             ELSE Returned4(e.code, TRUE, a.errors)

\* Transpiler.transpile of a transpiler with the attributes attrs
TranspileOutcome(target, advanced, attrs, source, analyze) ==
    IF advanced
    THEN LET r == transpile_advanced(source)
         IN  IF r.outcome = "raised" \/ target = "python" THEN r
             ELSE IF ~r.valid THEN Returned4("None", FALSE, r.errors)
             ELSE IF "parser" \notin attrs THEN RaisedOut("AttributeError")
             ELSE LET e == Emitted(GeneratorClass(target), <<>>, source)
                  IN  IF e.raised THEN Returned4("None", FALSE, Append(r.errors, GenerateFailedMessage))
                      ELSE Returned4(e.code, TRUE, r.errors)
    ELSE IF source = Unparsable THEN Returned4("None", FALSE, ParseFailedMessage)
    ELSE LET a == accept(Program(source), AnalyzerMethods, NewAnalyzer)
             errs == IF analyze THEN a.errors ELSE <<>>
             e == Emitted(GeneratorClass(target), <<>>, source)
         IN  IF analyze /\ a.raised # "none" THEN RaisedOut(a.raised)
             ELSE IF analyze /\ Len(a.errors) # 0 THEN Returned4("None", FALSE, a.errors)
             ELSE IF e.raised THEN Returned4("None", FALSE, Append(errs, GenerateFailedMessage))
             ELSE Returned4(e.code, TRUE, errs)

NoTranspiler ==
    [ use |-> "none", target |-> "none", advanced |-> FALSE, attrs |-> {},
      source |-> <<>>, analyze |-> FALSE, out |-> RaisedOut("none") ]

InitModes == transpiler = NoTranspiler

\* Transpiler.__init__
Transpiler(target, advanced) ==
    /\ transpiler.use # "new"
    /\ transpiler' =
          IF target \notin SUPPORTED_TARGETS
          THEN [NoTranspiler EXCEPT !.target = target, !.advanced = advanced,
                                    !.out = RaisedOut("ValueError")]
          ELSE [NoTranspiler EXCEPT
                  !.use = "new", !.target = target, !.advanced = advanced,
                  !.attrs = {"target", "advanced"}
                            \cup (IF advanced THEN {} ELSE {"parser", "analyzer", "generator"})]
    /\ UNCHANGED outsideModes

\* Transpiler.transpile(source, analyze), the first call on the transpiler
transpile(source, analyze) ==
    /\ transpiler.use = "new"
    /\ transpiler' = [transpiler EXCEPT
                        !.use = "used", !.source = source, !.analyze = analyze,
                        !.out = TranspileOutcome(transpiler.target, transpiler.advanced,
                                                 transpiler.attrs, source, analyze)]
    /\ UNCHANGED outsideModes

NextModes ==
    \/ \E target \in SUPPORTED_TARGETS \cup {"ruby"}, advanced \in BOOLEAN :
            Transpiler(target, advanced)
    \/ \E source \in TranspiledSources, analyze \in BOOLEAN : transpile(source, analyze)

Init ==
    /\ pc = "idle"
    /\ scopes = <<{}>>
    /\ errors = <<>>
    /\ warnings = <<>>
    /\ frames = <<>>
    /\ stmtNo = 0
    /\ visited = 0
    /\ calls = 0
    /\ result = [code |-> "pending", valid |-> FALSE, errors |-> <<>>, warnings |-> <<>>]
    /\ h = HistInit
    /\ InitLexer
    /\ InitMatch
    /\ InitTypes
    /\ InitGenerator
    /\ InitAnalysis
    /\ InitModes

Next ==
    \/ TranspileParseFails
    \/ \E analyze \in BOOLEAN : TranspileParsed(analyze)
    \/ \E n \in Names, e \in Initializers : VisitDeclaration(n, e)
    \/ \E n \in Names, e \in Assigned : VisitAssignment(n, e)
    \/ \E e \in Returned : VisitReturnStatement(e)
    \/ \E d \in Displayed : VisitDisplayStatement(d[1], d[2])
    \/ \E c \in Conditions : VisitIfStatement(c)
    \/ IfOtherwise
    \/ ExitBlock
    \/ \E v \in Names, e \in Iterables : VisitForEachStatement(v, e)
    \/ \E n \in ProcessNames, ps \in Params : VisitProcessDefinition(n, ps)
    \/ AnalyzeReturns
    \/ \E raises \in BOOLEAN : Generate(raises)

Spec == Init /\ [][Next]_vars

\* the tokenizer driven by a caller that reads tokens until None
SpecLexer == Init /\ [][NextLexer]_vars

\* match statements compiled for either target and run, and the runtime matcher
SpecMatch == Init /\ [][NextMatch]_vars

\* a TypeChecker checking programs, and its TypeInferer asked for the type of an expression
SpecTypes == Init /\ [][NextTypes]_vars

\* a generator made for a target and asked for the text of one program after another
SpecGenerator == Init /\ [][NextGenerator]_vars

\* the semantic analyzer on whole ASTs of the extended language
SpecAnalysis == Init /\ [][NextAnalysis]_vars

\* a Transpiler of each target and mode and its transpile call
SpecModes == Init /\ [][NextModes]_vars

----------------------------------------------------------------------------
(* Properties of Spec *)

Returned_ == pc = "idle" /\ calls > 0

\* C1: a transpile call in standard mode returns code = None and valid = False
\* whenever the parse failed or the analysis reported at least one error, and
\* returns code other than None only together with valid = True.
C1_NoCodeOnFailure ==
    Returned_ =>
        /\ (h.parse = "failed" => result.code = "None" /\ ~result.valid)
        /\ (h.parse = "ok" /\ h.analysed /\ Len(errors) > h.errStart
                => result.code = "None" /\ ~result.valid)
        /\ (result.code # "None" => result.valid)

\* a call whose analysis reported an unbound reference has returned
C1_Witness ==
    Returned_ /\ h.parse = "ok" /\ h.analysed /\ h.unbound > 0 /\ result.code = "None"

UndefinedKinds == {"undefined variable", "undefined assignment", "undefined function"}

\* the errors of the given kinds reported after the first `from` entries
ErrorsSince(from, kinds) ==
    {i \in (from + 1)..Len(errors) : errors[i].kind \in kinds}

\* names bound only inside the if/for-each body that ended just before the
\* last visited statement, and referenced by that statement
LeakCandidates == (h.stmt.refs \cap h.after) \ (h.outer \cup h.same)

\* C2: in an analysis begun on an empty root scope, a name bound only inside
\* the body of an if/otherwise or for-each block and referenced by the
\* statement that immediately follows the block is reported as undefined.
C2_BlockBindingsDoNotLeak ==
    (h.stmt.kind # "none" /\ h.carried = {}) =>
        \A v \in LeakCandidates :
            \E i \in ErrorsSince(h.errBefore, UndefinedKinds) :
                errors[i].name = v /\ errors[i].pos = stmtNo

C2_Witness ==
    h.stmt.kind # "none" /\ h.carried = {} /\ LeakCandidates # {}

\* C3: a Let of a name already declared in the same scope is reported as
\* "already defined"; a Let of a name that is bound only in an enclosing
\* scope (shadowing) is not.
C3_RedeclarationOnlyInSameScope ==
    h.stmt.kind = "decl" =>
        LET dups == {i \in ErrorsSince(h.errBefore, {"already defined"}) :
                        errors[i].name = h.stmt.name /\ errors[i].pos = stmtNo}
        IN /\ (h.stmt.name \in h.same => dups # {})
           /\ (h.stmt.name \notin h.same /\ h.stmt.name \in h.outer => dups = {})

\* a Let that shadows a binding of an enclosing scope has been visited
C3_Witness ==
    h.stmt.kind = "decl" /\ h.stmt.name \notin h.same /\ h.stmt.name \in h.outer

\* C4: every reference, assignment target and call whose name is in no scope
\* of the chain when it is visited adds exactly one error (calls to
\* format_string and format_message add none), and analysis goes on: the
\* program's n unbound references give n such errors.
C4_OneErrorPerUnboundReference ==
    /\ h.stmt.kind # "none" =>
          Cardinality(ErrorsSince(h.errBefore, UndefinedKinds)) = h.stmt.unbound
    /\ h.parse = "ok" /\ h.analysed =>
          Cardinality(ErrorsSince(h.errStart, UndefinedKinds)) = h.unbound

\* an analysis of a program with two or more unbound references has returned
C4_Witness ==
    Returned_ /\ h.analysed /\ h.unbound >= 2

\* the statement just visited is valid in the program it stands in: it redeclares
\* no name of its own level and refers only to names the program has bound
ValidOnItsOwn ==
    /\ pc = "analyzing"
    /\ h.stmt.kind # "none"
    /\ h.stmt.kind \in {"decl", "process"} => h.stmt.name \notin h.same
    /\ h.stmt.refs \subseteq (h.outer \cup h.same)

\* the analysis of the last transpile call has returned and added no error
AnalysedWithoutNewError ==
    /\ pc = "idle"
    /\ h.analysed
    /\ result.code # "pending"
    /\ Len(errors) = h.errStart

(* C16: each analysis owns a fresh scope chain and error list: after any    *)
(* earlier transpile calls on the same Transpiler, a statement that is      *)
(* valid in its own program adds no error, and a program that adds no error *)
(* returns valid = True with an empty error list.                           *)
C16_EachAnalysisStartsFresh ==
    /\ ValidOnItsOwn => Len(errors) = h.errBefore
    /\ AnalysedWithoutNewError => result.valid /\ result.errors = <<>>

\* the number of if, otherwise, for-each and process bodies of the program
\* text that enclose the node being visited
EnclosingBodies == Len(h.bound) - 1

(* C29: scope entry and exit are balanced during analysis: while a node is  *)
(* visited the scope chain above the root is as long as the number of       *)
(* if/otherwise/for-each/process bodies enclosing the node, exit_scope is   *)
(* never applied to the root scope, and when analyze returns the current    *)
(* scope is the root scope again.                                           *)
C29_ScopesAreBalanced ==
    /\ Len(scopes) >= 1
    /\ Len(scopes) - 1 = EnclosingBodies
    /\ pc # "analyzing" => Len(scopes) = 1

\* analyze has returned from a program whose last statement was a block
\* that bound names in its own scope
C29_Witness ==
    /\ pc = "generate"
    /\ Len(scopes) = 1
    /\ h.closed # {}

----------------------------------------------------------------------------
(* Properties of SpecLexer *)

Count(toks, type) == Cardinality({i \in DOMAIN toks : toks[i].type = type})

\* the NEWLINE token has just been returned
AfterNewline == lexer.last = "NEWLINE" /\ ~lexer.atEnd

\* C8: after each newline the leading whitespace of the following line (tab =
\* 4 columns) is compared with the top of the indentation stack: deeper pushes
\* the level and queues exactly one INDENT, shallower pops every level above
\* it and queues one DEDENT per pop, equal queues nothing.
C8_IndentationFollowsNextLine ==
    AfterNewline =>
        /\ lexer.width > lexer.top =>
              /\ lexer.indentation_stack = Append(lexer.before, lexer.width)
              /\ lexer.token_queue = <<Token("INDENT", <<>>)>>
        /\ lexer.width < lexer.top =>
              /\ lexer.indentation_stack = PopWhile(lexer.before, lexer.width)
              /\ lexer.token_queue =
                    Repeat(Token("DEDENT", <<>>),
                           Len(lexer.before) - Len(lexer.indentation_stack))
        /\ lexer.width = lexer.top =>
              /\ lexer.indentation_stack = lexer.before
              /\ lexer.token_queue = <<>>

\* the whole input has been tokenized
EndOfInput == lexer.atEnd /\ lexer.inputs > 0

LastLineIndented ==
    \E i \in DOMAIN lexer.lexdata :
        /\ lexer.lexdata[i] \in Ignored
        /\ i > 1 /\ lexer.lexdata[i - 1] = "\n"
        /\ \A j \in i..Len(lexer.lexdata) : lexer.lexdata[j] # "\n"

Types(toks) == [i \in DOMAIN toks |-> toks[i].type]

\* C10: each multi-word operator between two identifiers is one operator
\* token: the stream of "x <operator> y" is ID, the operator's token, ID.
C10_MultiWordOperatorsAreSingleTokens ==
    \A i \in DOMAIN OperatorPhrases :
        (EndOfInput /\ lexer.lexdata = OperatorSource(OperatorPhrases[i])) =>
            /\ Types(lexer.tokens) = <<"ID", OperatorPhrases[i].type, "ID">>
            /\ lexer.tokens[2].value = OperatorPhrases[i].text

\* C30: an identifier is one ID token carrying the whole name, also when the
\* name begins with a keyword or operator word: the token stream of a source
\* that is one name is that single ID token.
C30_IdentifierIsOneToken ==
    (EndOfInput /\ lexer.lexdata \in NameSources) =>
        lexer.tokens = <<Token("ID", lexer.lexdata)>>

\* names that begin with no keyword or operator word are one ID token
PlainNameIsOneToken ==
    (EndOfInput /\ lexer.lexdata \in PlainNames) =>
        lexer.tokens = <<Token("ID", lexer.lexdata)>>

----------------------------------------------------------------------------
(* Properties of SpecMatch *)

Ran == match.phase = "ran"
Compiled == match.phase \in {"compiled", "ran"}

RECURSIVE Matches(_, _)
\* the matching relation of the language: a wildcard, a variable and a rest
\* match anything, a literal matches an equal value, a list pattern matches a
\* list position by position (the elements after a rest against the last
\* ones), a dictionary pattern matches a dictionary that has every declared
\* key with a matching value
Matches(pattern, x) ==
    CASE pattern.p \in {"wildcard", "variable", "rest"} -> TRUE
      [] pattern.p = "literal" -> x.t = pattern.value.t /\ x.v = pattern.value.v
      [] pattern.p = "list" ->
            /\ x.t = "list"
            /\ LET elements == pattern.elements
               IN IF HasRest(elements)
                  THEN LET k == Len(BeforeRest(elements))
                           m == Len(AfterRest(elements))
                       IN /\ Len(x.v) >= k + m
                          /\ \A i \in 1..k : Matches(elements[i], x.v[i])
                          /\ \A j \in 1..m :
                                Matches(AfterRest(elements)[j], x.v[Len(x.v) - m + j])
                  ELSE /\ Len(x.v) = Len(elements)
                       /\ \A i \in DOMAIN elements : Matches(elements[i], x.v[i])
      [] pattern.p = "dict" ->
            /\ x.t = "dict"
            /\ \A i \in DOMAIN pattern.entries :
                  /\ pattern.entries[i].key \in DOMAIN x.v
                  /\ Matches(pattern.entries[i].value, x.v[pattern.entries[i].key])

\* the cases of the statement that match the scrutinee
Matching(cases, x) == {i \in DOMAIN cases : Matches(cases[i], x)}

\* the branch of the first case that matches, and no other
FirstMatch_(cases, x) ==
    IF Matching(cases, x) = {} THEN <<>>
    ELSE <<CHOOSE i \in Matching(cases, x) : \A j \in Matching(cases, x) : i <= j>>

\* the bodies of the cases that ran (the else branch has no body)
Bodies(executed) == SelectSeq(executed, LAMBDA c : c # 0)

\* C5: generated match code has first-match semantics in source case order: for
\* every scrutinee the branch executed is that of the first case whose pattern
\* matches; a wildcard case before a literal case always wins, and with the
\* literal case first the literal wins for equal values, the wildcard otherwise.
C5_FirstMatchingCaseRuns ==
    Ran =>
        /\ ~match.outcome.raised
        /\ Bodies(match.outcome.executed) = FirstMatch_(match.cases, match.value)

Atomic(pattern) == pattern.p \in {"wildcard", "literal", "variable"}

\* the order of the chain alone: among cases whose patterns are wildcards,
\* literals and variables the first matching case runs
FirstMatchAmongAtomicPatterns ==
    (Ran /\ \A i \in DOMAIN match.cases : Atomic(match.cases[i])) =>
        /\ ~match.outcome.raised
        /\ Bodies(match.outcome.executed) = FirstMatch_(match.cases, match.value)

\* a statement of one case with a dictionary pattern, run on a dictionary
OneDictionaryCase ==
    /\ Len(match.cases) = 1
    /\ match.cases[1].p = "dict"
    /\ match.value.t = "dict"

\* C6: a dictionary pattern matches a dictionary exactly when every declared
\* key is present with a matching value, whatever other keys the dictionary
\* has and however many keys the pattern declares (none included); so in the
\* generated code of both targets and in the runtime matcher.
C6_DictionaryPatternIgnoresOtherKeys ==
    /\ (Ran /\ OneDictionaryCase) =>
          (match.outcome.executed = <<1>> <=> Matches(match.cases[1], match.value))
    /\ (match.phase = "matched" /\ OneDictionaryCase) =>
          (match.result.success <=> Matches(match.cases[1], match.value))

RECURSIVE BindNames(_)
\* the names a pattern binds, one per occurrence
BindNames(pattern) ==
    CASE pattern.p = "variable" -> IF pattern.name = "_" THEN <<>> ELSE <<pattern.name>>
      [] pattern.p = "rest" -> IF pattern.name = "" THEN <<>> ELSE <<pattern.name>>
      [] pattern.p = "list" ->
            Flatten([i \in 1..Len(pattern.elements) |-> BindNames(pattern.elements[i])])
      [] pattern.p = "dict" ->
            Flatten([i \in 1..Len(pattern.entries) |-> BindNames(pattern.entries[i].value)])
      [] OTHER -> <<>>

BindsTwice(pattern) ==
    \E i, j \in DOMAIN BindNames(pattern) :
        i # j /\ BindNames(pattern)[i] = BindNames(pattern)[j]

\* C7: a pattern in which a bind name occurs more than once is rejected when
\* the match statement is compiled; no code is generated in which a later
\* binding of the name replaces an earlier one.
C7_RepeatedBindNameIsRejected ==
    (Compiled /\ \E i \in DOMAIN match.cases : BindsTwice(match.cases[i])) =>
        /\ match.compiled = "rejected"
        /\ \A i \in DOMAIN match.chain : ~DeclaresTwice(match.chain[i])

\* a list pattern with a rest element
RestList(pattern) == pattern.p = "list" /\ HasRest(pattern.elements)

\* the condition generated for an element of a list pattern
ElementCondition(target, pattern, path) ==
    IF target = "python" THEN PyCondition(pattern, path) ELSE JsCondition(pattern, path)

\* the test of a list pattern with the rest at index k and m elements after
\* it: is-list, length >= k + m, element i before the rest at [i], element j
\* after the rest at [length - m + j]
PositionalCondition(target, pattern, path) ==
    LET before_rest == BeforeRest(pattern.elements)
        after_rest == AfterRest(pattern.elements)
        k == Len(before_rest)
        m == Len(after_rest)
    IN AllOf(<<Cond(IF target = "python" THEN "isinstance_list" ELSE "is_array", path, 0),
               Cond(IF target = "python" THEN "py_len_ge" ELSE "js_length_ge", path, k + m)>>
             \o [i \in 1..k |-> ElementCondition(target, before_rest[i], Append(path, Idx(i - 1)))]
             \o [j \in 1..m |->
                    ElementCondition(target, after_rest[j], Append(path, FromEnd(m - (j - 1))))])

\* the bindings reading the same positions, a named rest binding [k, length - m)
PositionalBindings(target, pattern, path) ==
    LET before_rest == BeforeRest(pattern.elements)
        after_rest == AfterRest(pattern.elements)
        rest_pattern == pattern.elements[RestIndex(pattern.elements)]
        k == Len(before_rest)
        m == Len(after_rest)
    IN Flatten([i \in 1..k |->
                  PatternBindings(target, before_rest[i], Append(path, Idx(i - 1)))])
       \o (IF rest_pattern.name # "" THEN <<BindSlice(rest_pattern.name, path, k, m)>>
           ELSE <<>>)
       \o Flatten([j \in 1..m |->
                  PatternBindings(target, after_rest[j], Append(path, FromEnd(m - (j - 1))))])

\* the value the matcher bound to a name, in a one-element set
BoundTo(bindings, name) ==
    {bindings[i].value : i \in {j \in DOMAIN bindings : bindings[j].name = name}}

(* C22: for a list pattern with a rest element at index k followed by m     *)
(* further elements the generated test of both targets requires is-list and *)
(* length >= k + m, checks element i before the rest at [i] and element j   *)
(* after the rest at [length - m + j]; the generated bindings read the same *)
(* positions and a named rest binds the slice [k, length - m); the runtime  *)
(* matcher matches by the same positions.                                   *)
C22_RestPatternPositions ==
    /\ Compiled =>
          \A i \in DOMAIN match.cases :
              RestList(match.cases[i]) =>
                  /\ match.chain[i].cond = PositionalCondition(match.target, match.cases[i], <<>>)
                  /\ match.chain[i].bindings
                        = PositionalBindings(match.target, match.cases[i], <<>>)
    /\ (match.phase = "matched" /\ RestList(match.cases[1])) =>
          /\ match.result.success <=> Matches(match.cases[1], match.value)
          /\ match.result.success =>
                LET elements == match.cases[1].elements
                    rest_pattern == elements[RestIndex(elements)]
                IN  rest_pattern.name # "" =>
                        BoundTo(match.result.bindings, rest_pattern.name)
                          = {ListV(SubSeq(match.value.v, Len(BeforeRest(elements)) + 1,
                                          Len(match.value.v) - Len(AfterRest(elements))))}

\* the positions of the JavaScript generator and of the runtime matcher are
\* the stated ones
RestPatternPositionsOutsidePython ==
    /\ (Compiled /\ match.target = "javascript") =>
          \A i \in DOMAIN match.cases :
              RestList(match.cases[i]) =>
                  /\ match.chain[i].cond = PositionalCondition(match.target, match.cases[i], <<>>)
                  /\ match.chain[i].bindings
                        = PositionalBindings(match.target, match.cases[i], <<>>)
    /\ (match.phase = "matched" /\ RestList(match.cases[1])) =>
          (match.result.success <=> Matches(match.cases[1], match.value))

\* a catch-all pattern: a wildcard or a bare variable
CatchAll(pattern) == pattern.p \in {"wildcard", "variable"}

HasElse(chain) == \E i \in DOMAIN chain : chain[i].kw = "else"

(* C23: the generated if/elif chain of a match statement ends with an       *)
(* implicit no-op else branch exactly when no case's pattern is a catch-all *)
(* (a wildcard or a bare variable such as "When other:"), in both targets.  *)
C23_ElseExactlyWithoutCatchAll ==
    Compiled =>
        (HasElse(match.chain) <=> ~\E i \in DOMAIN match.cases : CatchAll(match.cases[i]))

\* the Python chain without a catch-all case ends with the else branch, and
\* has none when a case is the wildcard
PythonElseFollowsWildcard ==
    (Compiled /\ match.target = "python"
     /\ \A i \in DOMAIN match.cases : match.cases[i].p # "variable") =>
        (HasElse(match.chain) <=> ~\E i \in DOMAIN match.cases : CatchAll(match.cases[i]))

(* C28: the runtime matcher and the Python code generator implement the     *)
(* same matching relation: for every pattern and value match_pattern        *)
(* succeeds exactly when the generated Python condition of the pattern is   *)
(* true on the value.                                                       *)
C28_MatcherAgreesWithPythonCondition ==
    match.phase = "matched" =>
        (match.result.success
            <=> Eval("python", PyCondition(match.cases[1], <<>>), match.value) = "true")

\* for wildcard, literal and variable patterns the two agree
MatcherAgreesOnAtomicPatterns ==
    (match.phase = "matched" /\ Atomic(match.cases[1])) =>
        (match.result.success
            <=> Eval("python", PyCondition(match.cases[1], <<>>), match.value) = "true")

----------------------------------------------------------------------------
(* Properties of SpecTypes *)

\* a type described by what it is, whichever object it is
Named(type_, name) == isinstance(type_, "PrimitiveType") /\ type_.name = name
Numeric(type_) == Named(type_, "Integer") \/ Named(type_, "Float")

\* the types infer_type gave the two operands of the binary operation last inferred
LeftType == infer_type(types.node.left, types.env)
RightType == infer_type(types.node.right, types.env)

\* the rules of the binary operation last inferred, for its operand types
BinaryOperationRules ==
    /\ types.node.operator \in Comparison \cup Logical => Named(types.inferred, "Boolean")
    /\ types.node.operator \in Arithmetic /\ Numeric(LeftType) /\ Numeric(RightType) =>
           IF Named(LeftType, "Float") \/ Named(RightType, "Float")
           THEN Named(types.inferred, "Float")
           ELSE Named(types.inferred, "Integer")
    /\ types.node.operator = "PLUS" /\ (Named(LeftType, "String") \/ Named(RightType, "String")) =>
           Named(types.inferred, "String")

(* C11: infer_type of a binary operation yields Boolean for a comparison or *)
(* logical operator, Float or Integer for arithmetic on two numeric         *)
(* operands (Float if either operand is Float) and String for PLUS with a   *)
(* String operand, for all operand types.                                   *)
C11_BinaryOperationRules ==
    types.node.k = "BinaryOperation" => BinaryOperationRules

\* the same rules where both operand types are objects of the inferer itself
BinaryOperationRulesOnInferredTypes ==
    /\ types.node.k = "BinaryOperation"
    /\ LeftType.obj = "inferer"
    /\ RightType.obj = "inferer"
    => BinaryOperationRules

\* two types of the same shape: same class, same name, same parts, whichever objects they are
RECURSIVE StructurallyEqual(_, _)
StructurallyEqual(type1, type2) ==
    /\ type1.cls = type2.cls
    /\ type1.name = type2.name
    /\ Len(type1.args) = Len(type2.args)
    /\ \A i \in DOMAIN type1.args : StructurallyEqual(type1.args[i], type2.args[i])

\* a typed declaration whose annotation names the type of its literal initializer
AnnotatedAsInferred(stmt) ==
    /\ stmt.k = "TypedDeclaration"
    /\ stmt.value.k \in {"StringLiteral", "NumberLiteral", "BooleanLiteral"}
    /\ StructurallyEqual(infer_type(stmt.value, <<TypeEnvironment>>), stmt.type_annotation)

(* C12: compatibility is structural: a program of typed declarations whose *)
(* annotation names the very type the initializer is inferred to have       *)
(* (Let x (Integer) be 10) has no type error and check_program returns      *)
(* valid.                                                                   *)
C12_CompatibilityIsStructural ==
    /\ types.program # <<>>
    /\ \A i \in DOMAIN types.program : AnnotatedAsInferred(types.program[i])
    => types.valid /\ types.errors = <<>>

\* the type the body of AddProcess returns when a and b have the types of the arguments of AddCall
RECURSIVE BindArguments(_, _)
BindArguments(env, named_arguments) ==
    IF named_arguments = <<>> THEN env
    ELSE BindArguments(set_variable_type(env, Head(named_arguments)[1],
                                         infer_type(Head(named_arguments)[2], env)),
                       Tail(named_arguments))

ReturnedForArguments ==
    infer_type(AddProcess.body[1].value, BindArguments(<<TypeEnvironment>>, AddCall.named_arguments))

(* C13: for the program that defines process add with body Return a plus b  *)
(* and declares sum as add with a as 2 and b as 3, the type layer infers    *)
(* the type of sum as Integer, the type of the returned expression for the  *)
(* argument types.                                                          *)
C13_CallHasTypeOfReturnedExpression ==
    types.program = <<AddProcess, SumDeclaration>> =>
        /\ Named(get_variable_type(types.env, "sum"), "Integer")
        /\ StructurallyEqual(get_variable_type(types.env, "sum"), ReturnedForArguments)

RECURSIVE CheckAll(_, _, _)
\* the check of every statement of the program, the bodies of all loops
\* included: what _check_statement reports for the other statements
CheckAll(statements, env, errs) ==
    IF statements = <<>> THEN Checked(env, errs)
    ELSE LET stmt == Head(statements)
             iterable_type == infer_type(stmt.iterable, env)
             not_a_list == ~isinstance(iterable_type, "ListType")
                           /\ ~isinstance(iterable_type, "AnyType")
             elem_type == IF isinstance(iterable_type, "ListType")
                          THEN iterable_type.args[1] ELSE any_type
             body == CheckAll(stmt.body,
                              set_variable_type(NestedScope(env), stmt.variable, elem_type),
                              IF not_a_list
                              THEN Append(errs, TypeError("for-each", stmt.variable))
                              ELSE errs)
             c == IF stmt.k = "ForEachStatement"
                  THEN Checked(Leave(body.env), body.errors)
                  ELSE _check_statement(stmt, env, errs)
         IN  CheckAll(Tail(statements), c.env, c.errors)

\* a loop of the program was reported for its iterable
LoopReported == \E i \in DOMAIN types.errors : types.errors[i].where = "for-each"

(* C27: check_program never halts early: every typed declaration and every  *)
(* assignment whose value type is incompatible with the declared or current *)
(* variable type adds one type error wherever it occurs, the body of a      *)
(* for-each loop whose iterable is reported as not being a list included;   *)
(* the errors of an earlier check_program call are not kept.                *)
C27_EveryMismatchIsReported ==
    types.errors = CheckAll(types.program, analyze_program(types.program), <<>>).errors

\* the same for the programs none of whose loops is reported
EveryMismatchIsReportedOutsideReportedLoops ==
    ~LoopReported =>
        types.errors = CheckAll(types.program, analyze_program(types.program), <<>>).errors

\* the types of the expressions, inferred where the container was
TypesOf(expressions) == [i \in DOMAIN expressions |-> infer_type(expressions[i], types.env)]

\* the inferred type unifies the types it was inferred from: each of them is
\* compatible with it, and it is Any if two of them are incompatible
Unifies(type_, part_types) ==
    /\ \A i \in DOMAIN part_types : _types_are_compatible(part_types[i], type_)
    /\ (\E i, j \in DOMAIN part_types : ~ _types_are_compatible(part_types[i], part_types[j])) =>
            isinstance(type_, "AnyType")

InferredList == types.node.k = "ListExpression" /\ types.node.elements # <<>>
InferredDictionary == types.node.k = "DictionaryExpression" /\ types.node.entries # <<>>
Keys == [i \in DOMAIN types.node.entries |-> types.node.entries[i].key]
Values == [i \in DOMAIN types.node.entries |-> types.node.entries[i].value]

(* C26: the inferred element type of a list literal, and the key and value  *)
(* types of a dictionary literal, unify all elements: every element's type  *)
(* is compatible with it and it is Any if two elements are incompatible;    *)
(* no element of a list inferred as List[Integer] has type Float.           *)
C26_ContainerLiteralUnifiesElements ==
    /\ InferredList =>
          /\ Unifies(types.inferred.args[1], TypesOf(types.node.elements))
          /\ types.inferred.args[1] = integer_type =>
                \A i \in DOMAIN types.node.elements :
                    infer_type(types.node.elements[i], types.env) # float_type
    /\ InferredDictionary =>
          /\ Unifies(types.inferred.args[1], TypesOf(Keys))
          /\ Unifies(types.inferred.args[2], TypesOf(Values))

\* the same without the last part: under the compatibility the inferer uses,
\* which lets Integer and Float stand for each other
ContainerLiteralUnifiesUpToNumeric ==
    /\ InferredList => Unifies(types.inferred.args[1], TypesOf(types.node.elements))
    /\ InferredDictionary =>
          /\ Unifies(types.inferred.args[1], TypesOf(Keys))
          /\ Unifies(types.inferred.args[2], TypesOf(Values))

\* _is_type_compatible has been applied to two types
Compared == types.compared # None

\* the members of a union type
Members(type_) == {type_.args[i] : i \in DOMAIN type_.args}

\* compatible(source, target) as the checker computes it
compatible(source_type, target_type) == _is_type_compatible(source_type, target_type)

(* C25: a union target is satisfied iff the source is compatible with at    *)
(* least one member; a union source is compatible iff every one of its      *)
(* members is compatible with the target; so a union source is compatible   *)
(* with a union target whenever each source member is compatible with some  *)
(* target member, whatever the order of the members.                        *)
C25_UnionCompatibility ==
    Compared =>
        LET source_type == types.compared.source_type
            target_type == types.compared.target_type
        IN  /\ (isinstance(target_type, "UnionType") /\ ~isinstance(source_type, "UnionType")) =>
                  (types.compared.compatible <=>
                      \E t \in Members(target_type) : compatible(source_type, t))
            /\ isinstance(source_type, "UnionType") =>
                  (types.compared.compatible <=>
                      \A member \in Members(source_type) : compatible(member, target_type))
            /\ ( /\ isinstance(source_type, "UnionType")
                 /\ isinstance(target_type, "UnionType")
                 /\ \A member \in Members(source_type) :
                        \E t \in Members(target_type) : compatible(member, t) ) =>
                  types.compared.compatible

\* the same where at most one of the two types is a union
UnionCompatibilityWithOneUnion ==
    Compared =>
        LET source_type == types.compared.source_type
            target_type == types.compared.target_type
        IN  /\ (isinstance(target_type, "UnionType") /\ ~isinstance(source_type, "UnionType")) =>
                  (types.compared.compatible <=>
                      \E t \in Members(target_type) : compatible(source_type, t))
            /\ (isinstance(source_type, "UnionType") /\ ~isinstance(target_type, "UnionType")) =>
                  (types.compared.compatible <=>
                      \A member \in Members(source_type) : compatible(member, target_type))

----------------------------------------------------------------------------
(* Properties of SpecGenerator *)

Generated == gen.use \in {"used", "used again"}

\* the text emitted for statement i of the program generated last
StatementText(i) == gen.parts[Len(gen.parts) - Len(gen.program) + i]

\* the ways to write the literal read from text in the target language
TargetLiterals(text, target) ==
    LET tok == LexToken(text, 1).tok
    IN  CASE tok.type = "BOOLEAN" ->
                IF target = "python"
                THEN {IF tok.value THEN "True" ELSE "False"}
                ELSE {IF tok.value THEN "true" ELSE "false"}
          [] tok.type = "NUMBER" ->
                {Text(text), str(PyTokenValue(tok))}
          [] OTHER -> {Text(text)}

\* the statement assigning a literal to x in the target language
Assigning(literal, target) ==
    IF target = "python" THEN "x = " \o literal ELSE "let x = " \o literal \o ";"

(* C14: for every declaration Let x be <literal> with a string, integer,    *)
(* fractional or boolean literal, parse followed by generate emits          *)
(* x = <literal> for Python and let x = <literal>; for JavaScript, the      *)
(* literal written in the syntax of the target.                             *)
C14_LiteralDeclarationAssignsLiteral ==
    Generated /\ ~gen.raised =>
        \A i \in DOMAIN gen.program : \A text \in LiteralTexts :
            gen.program[i] = LiteralDeclaration(text) =>
                StatementText(i) \in { Assigning(literal, gen.target) :
                                          literal \in TargetLiterals(text, gen.target) }

(* C15: JavaScript translates a call with named arguments into a call with *)
(* one object-literal argument, add({a: 5, b: 10}), and transpiling a       *)
(* program with such a call succeeds.                                       *)
C15_NamedArgumentsBecomeObjectLiteral ==
    Generated /\ gen.target = "javascript" =>
        \A i \in DOMAIN gen.program :
            gen.program[i] = NamedCallDeclaration =>
                /\ ~gen.raised
                /\ StatementText(i) = "let sum = add({a: 5, b: 10});"

(* C17: each generate call of the Python generator returns the header       *)
(* followed by exactly the statements of the given program, in order, also  *)
(* on a generator that has generated before.                                *)
C17_GenerateEmitsOnlyTheGivenProgram ==
    Generated /\ gen.target = "python" =>
        gen.code = Join(Header \o [i \in DOMAIN gen.program |-> PyGenerate(gen.program[i])], "\n")

\* the shape of a program: its nodes without the addresses they live at
Structure(program) ==
    [i \in DOMAIN program |->
        IF program[i].k = "MatchExpression" THEN [program[i] EXCEPT !.id = ""] ELSE program[i]]

(* C18: code emission is deterministic: the text a new generator returns    *)
(* for a program is the text a new generator of the same target returns for *)
(* every structurally identical program (the same source parsed again),     *)
(* names of the temporary variables of match statements included.           *)
C18_EmissionIsDeterministic ==
    gen.use = "used" =>
        \A again \in GeneratedPrograms :
            Structure(again) = Structure(gen.program) =>
                Emitted(gen.target, <<>>, again).code = gen.code

MaxNesting == 3

RECURSIVE Leading(_)
\* four spaces for each enclosing body
Leading(d) == IF d = 0 THEN "" ELSE "    " \o Leading(d - 1)

RECURSIVE NestedLines(_, _, _), NestedBlock(_, _, _), CaseLines(_, _, _, _)
\* the lines of the statement inside d enclosing bodies, each behind 4*d spaces
NestedLines(node, d, target) ==
    LET python == target = "python"
        expr(e) == IF python THEN PyGenerate(e) ELSE JsGenerate(e, 0)
        close == IF python THEN <<>> ELSE <<Leading(d) \o "}">>
    IN  CASE node.k = "IfStatement" ->
                <<Leading(d) \o (IF python THEN "if " \o expr(node.condition) \o ":"
                                 ELSE "if (" \o expr(node.condition) \o ") {")>>
                \o NestedBlock(node.then_block, d + 1, target) \o close
                \o (IF node.else_block = <<>> THEN <<>>
                    ELSE <<Leading(d) \o (IF python THEN "else:" ELSE "else {")>>
                         \o NestedBlock(node.else_block, d + 1, target) \o close)
          [] node.k = "ForEachStatement" ->
                <<Leading(d) \o (IF python
                                 THEN "for " \o node.variable \o " in "
                                        \o expr(node.iterable) \o ":"
                                 ELSE "for (let " \o node.variable \o " of "
                                        \o expr(node.iterable) \o ") {")>>
                \o NestedBlock(node.body, d + 1, target) \o close
          [] node.k = "MatchExpression" ->
                <<Leading(d) \o (IF python THEN temp_var(node) \o " = " \o expr(node.value)
                                 ELSE "const " \o temp_var(node) \o " = "
                                        \o expr(node.value) \o ";")>>
                \o CaseLines(node.cases, 1, d, target)
                \o (IF python THEN <<>>
                    ELSE <<Leading(d) \o "else {", Leading(d + 1) \o "// No pattern matched",
                           Leading(d) \o "}">>)
          [] OTHER -> <<Leading(d) \o expr(node)>>

\* the lines of the statements of one body
NestedBlock(stmts, d, target) ==
    IF stmts = <<>> THEN <<>>
    ELSE NestedLines(Head(stmts), d, target) \o NestedBlock(Tail(stmts), d, target)

\* the lines of the catch-all cases of a match statement, from case i on
CaseLines(cases, i, d, target) ==
    IF i > Len(cases) THEN <<>>
    ELSE <<Leading(d) \o (IF target = "python"
                          THEN (IF i = 1 THEN "if True:" ELSE "elif True:")
                          ELSE (IF i = 1 THEN "if (true) {" ELSE "else if (true) {"))>>
         \o NestedBlock(cases[i].body, d + 1, target)
         \o (IF target = "python" THEN <<>> ELSE <<Leading(d) \o "}">>)
         \o CaseLines(cases, i + 1, d, target)

RECURSIVE NestedBlockOfCases(_)
\* the statements of all case bodies
NestedBlockOfCases(cases) ==
    IF cases = <<>> THEN <<>> ELSE Head(cases).body \o NestedBlockOfCases(Tail(cases))

RECURSIVE NestingDepth(_)
\* the number of bodies around the innermost statement of node
NestingDepth(node) ==
    LET deepest(stmts) ==
            IF stmts = <<>> THEN 0
            ELSE CHOOSE m \in 0..MaxNesting :
                    /\ \E j \in DOMAIN stmts : NestingDepth(stmts[j]) = m
                    /\ \A j \in DOMAIN stmts : NestingDepth(stmts[j]) <= m
    IN  CASE node.k = "IfStatement" ->
                1 + deepest(node.then_block \o node.else_block)
          [] node.k = "ForEachStatement" -> 1 + deepest(node.body)
          [] node.k = "MatchExpression" ->
                1 + deepest(NestedBlockOfCases(node.cases))
          [] OTHER -> 0

(* C24: every line of a statement inside d enclosing if, otherwise,         *)
(* for-each and match-case bodies is emitted with 4*d leading spaces, in    *)
(* Python and in JavaScript, so that the body of a block nested in another  *)
(* block lies deeper than its header.                                       *)
C24_LinesIndentedByNestingDepth ==
    Generated /\ ~gen.raised =>
        \A i \in DOMAIN gen.program :
            StatementText(i) = Join(NestedLines(gen.program[i], 0, gen.target), "\n")

\* the same for JavaScript, and in Python for blocks that contain no block
LinesIndentedOutsideNestedPython ==
    Generated /\ ~gen.raised =>
        \A i \in DOMAIN gen.program :
            (gen.target = "javascript" \/ NestingDepth(gen.program[i]) <= 1) =>
                StatementText(i) = Join(NestedLines(gen.program[i], 0, gen.target), "\n")

----------------------------------------------------------------------------
(* Properties of SpecAnalysis *)

\* an analyzer has analysed a program after every integrate_* function ran
AnalysedByAdvancedAnalyzer == analysis.use = "used" /\ analysis.features = Features

RECURSIVE BoundNames(_)
\* the names a pattern binds in its case body
BoundNames(pattern) ==
    CASE pattern.p \in {"variable", "rest"} -> {pattern.name} \ {"_"}
      [] pattern.p = "list" ->
            UNION {BoundNames(pattern.elements[i]) : i \in DOMAIN pattern.elements}
      [] OTHER -> {}

RECURSIVE FreeNames(_)
\* the names an expression refers to outside the lambdas that bind them
FreeNames(e) ==
    CASE e.k = "VariableReference" -> {e.name}
      [] e.k = "BinaryOperation" -> FreeNames(e.left) \cup FreeNames(e.right)
      [] e.k = "FunctionCall" ->
            ({e.name} \ BuiltinFunctions)
            \cup UNION {FreeNames(e.named_arguments[i][2]) : i \in DOMAIN e.named_arguments}
      [] e.k = "LambdaExpression" ->
            FreeNames(e.body) \ {e.parameters[i] : i \in DOMAIN e.parameters}
      [] OTHER -> {}

\* the names a statement declares at its own level
Declares(stmt) ==
    IF stmt.k \in {"Declaration", "TypedDeclaration", "TypedProcessDefinition"}
    THEN {stmt.name} ELSE {}

RECURSIVE Unbound(_, _)
\* the names the statements refer to that the program text has not bound
\* there, known being the names bound before them
Unbound(stmts, known) ==
    IF stmts = <<>> THEN {}
    ELSE LET stmt == Head(stmts)
             here ==
                CASE stmt.k \in {"Declaration", "TypedDeclaration", "DisplayStatement",
                                 "ReturnStatement"} ->
                        FreeNames(stmt.value) \ known
                  [] stmt.k = "TypedProcessDefinition" ->
                        Unbound(stmt.body,
                                known \cup {stmt.name}
                                \cup {stmt.parameters[i].name : i \in DOMAIN stmt.parameters})
                  [] stmt.k = "MatchExpression" ->
                        (FreeNames(stmt.value) \ known)
                        \cup UNION {Unbound(stmt.cases[i].body,
                                            known \cup BoundNames(stmt.cases[i].pattern))
                                    : i \in DOMAIN stmt.cases}
                  [] OTHER -> {}
         IN  here \cup Unbound(Tail(stmts), known \cup Declares(stmt))

\* every reference of the program is to a name the program binds there
WellScoped(program) == Unbound(program, {}) = {}

\* the statements of the program that belong to the type system or are match statements
ExtendedStatements(program) ==
    {i \in DOMAIN program :
        program[i].k \in {"TypeAlias", "TypedDeclaration", "TypedProcessDefinition",
                          "MatchExpression"}}

\* the names bound by a pattern or a lambda parameter that the program
\* refers to inside the case body or lambda body binding them
ReferencedInBody(program) ==
    UNION {
        CASE program[i].k = "MatchExpression" ->
                UNION {BoundNames(program[i].cases[j].pattern)
                       \cap Unbound(program[i].cases[j].body, {})
                       : j \in DOMAIN program[i].cases}
          [] program[i].k = "Declaration" /\ program[i].value.k = "LambdaExpression" ->
                {program[i].value.parameters[j] : j \in DOMAIN program[i].value.parameters}
                \cap FreeNames(program[i].value.body)
          [] OTHER -> {}
        : i \in DOMAIN program }

(* C19: analysis is total: analyze of an analyzer of the advanced pipeline  *)
(* never raises and returns a boolean for every program, programs with      *)
(* type aliases, typed declarations, typed process definitions and match    *)
(* statements included, and a program whose statements are all valid is     *)
(* reported valid (programs referring to names bound by patterns or lambda  *)
(* parameters are left to C20).                                             *)
C19_AnalysisIsTotal ==
    AnalysedByAdvancedAnalyzer =>
        /\ analysis.raised = "none"
        /\ analysis.returned \in {"True", "False"}
        /\ (WellScoped(analysis.program) /\ ReferencedInBody(analysis.program) = {})
              => analysis.returned = "True"

(* C20: a name bound by a variable pattern or a named rest pattern of a     *)
(* match case, or by a parameter of a lambda expression, is in scope in     *)
(* that case body or lambda body: an analysis that returned, of a program   *)
(* referring to such names only inside their bodies, holds no undefined-    *)
(* variable error and returned valid.                                       *)
C20_BoundNamesAreInScopeInBody ==
    (/\ analysis.use = "used"
     /\ analysis.raised = "none"
     /\ ReferencedInBody(analysis.program) # {}
     /\ WellScoped(analysis.program)) =>
        /\ \A i \in DOMAIN analysis.errors : analysis.errors[i].kind # "undefined variable"
        /\ analysis.returned = "True"

\* the visit methods that are reached do what the claims say they do: a
\* program without type-system statements and without references to pattern
\* or lambda names is analysed to the end, and is valid when well scoped
AnalysisOfOtherProgramsIsTotal ==
    (/\ AnalysedByAdvancedAnalyzer
     /\ \A i \in DOMAIN analysis.program : analysis.program[i].k = "MatchExpression"
                                           \/ i \notin ExtendedStatements(analysis.program)
     /\ ReferencedInBody(analysis.program) = {}) =>
        /\ analysis.raised = "none"
        /\ WellScoped(analysis.program) <=> analysis.returned = "True"


----------------------------------------------------------------------------
(* Properties of SpecModes *)

Transpiled == transpiler.use = "used"

\* the source parses, declares no name twice and refers only to names
\* declared before
ValidSource(source) ==
    /\ source # Unparsable
    /\ \A i, j \in DOMAIN source : i # j => Declares(source[i]) \cap Declares(source[j]) = {}
    /\ WellScoped(source)

(* C21: transpile returns a (code, valid, errors, warnings) tuple for every *)
(* supported target in standard and in advanced mode; with target           *)
(* javascript and advanced = True a valid program gives valid = True, no    *)
(* errors and JavaScript code, not an exception.                            *)
C21_TranspileReturnsTuple ==
    Transpiled =>
        /\ transpiler.out.outcome = "returned"
        /\ (/\ transpiler.target = "javascript"
            /\ transpiler.advanced
            /\ ValidSource(transpiler.source)) =>
                /\ transpiler.out.valid
                /\ transpiler.out.errors = <<>>
                /\ transpiler.out.code # "None"

\* in standard mode for every target, and in advanced mode for target
\* python, transpile returns a tuple, valid for a valid source that the
\* generator of the target can emit
OtherModesReturnTuple ==
    (Transpiled /\ (~transpiler.advanced \/ transpiler.target = "python")) =>
        /\ transpiler.out.outcome = "returned"
        /\ (ValidSource(transpiler.source) /\ transpiler.target = "python") =>
                transpiler.out.valid /\ transpiler.out.code # "None"

====
